---- MODULE Spec2Model ----
(***************************************************************************)
(* Feedback-aggregation and consensus-scoring pipeline of the              *)
(* Feedback-System repository (src/consensus/summary.py and                *)
(* src/consensus/summary_helpers.py).                                      *)
(*                                                                         *)
(* Real numbers are modelled exactly: a weight factor is an integer number *)
(* of fixed units, a share or a similarity is a fraction <<n, d>> with     *)
(* d > 0, and two fractions are compared by cross-multiplication.          *)
(***************************************************************************)
EXTENDS Integers, Sequences, FiniteSets, TLC

VARIABLES
    wpc, row, weight,                       \* weight model (step B)
    gpc, g, allowed_options, panel, dissent_row,  \* one cluster group (steps D and E)
    cpc, df, unique_themes, clusters, theme_to_cluster, cluster_labels,  \* clusterer (step C)
    sort_memo, first_run,                   \* what the sorts returned; outputs of a first run
    epc, category, panels_df, dissent_df,   \* executive consensus card: its inputs ...
    what_we_agree_on, where_we_disagree, what_to_decide_next,  \* ... and its three bullet lists
    ppc, evidence_g, top_evidence, payload_df, against_top7,  \* evidence ranking and LLM payload
    spc, llm_output, summary, summary_error,  \* generate_summary: the summarizer's response, the Summary
    kpc, response, result, classify_error,    \* classify_single_feedback: raw response, returned dict
    apc, classified_feedbacks, analytics,     \* aggregate_feedback_analytics: input and returned dict
    messages, channels, tasks, finished, writes, seen, order, graph_status,  \* one run of summary_graph
    llm_report_response, report, report_raised,  \* generate_report_with_fallback
    feedbacks, started, running, task_result, attempts, results, gather_raised,  \* classify_feedbacks_parallel
    analysis_status, analysis_runs, accept_count, surviving,  \* one event in the database
    tpc, cached_status, run_id, calls, pipeline_raised,  \* the requests that trigger its analysis
    bpc, report_feedbacks, batch_idx, attempt, attempts_made, all_dimensions, simple_report  \* generate_simple_report

wvars == <<wpc, row, weight>>
gvars == <<gpc, g, allowed_options, panel, dissent_row>>
cvars == <<cpc, df, unique_themes, clusters, theme_to_cluster, cluster_labels,
           sort_memo, first_run>>
evars == <<epc, category, panels_df, dissent_df,
           what_we_agree_on, where_we_disagree, what_to_decide_next>>
pvars == <<ppc, evidence_g, top_evidence, payload_df, against_top7>>
svars == <<spc, llm_output, summary, summary_error>>
kvars == <<kpc, response, result, classify_error>>
avars == <<apc, classified_feedbacks, analytics>>
xvars == <<messages, channels, tasks, finished, writes, seen, order, graph_status>>
rvars == <<llm_report_response, report, report_raised>>
fvars == <<feedbacks, started, running, task_result, attempts, results, gather_raised>>
tvars == <<analysis_status, analysis_runs, accept_count, surviving,
          tpc, cached_status, run_id, calls, pipeline_raised>>
bvars == <<bpc, report_feedbacks, batch_idx, attempt, attempts_made, all_dimensions, simple_report>>
vars  == <<wvars, gvars, cvars, evars, pvars, svars, kvars, avars, xvars, rvars, fvars, tvars, bvars>>
\* the variables outside one part of the model
notW == <<gvars, cvars, evars, pvars, svars, kvars, avars, xvars, rvars, fvars, tvars, bvars>>
notG == <<wvars, cvars, evars, pvars, svars, kvars, avars, xvars, rvars, fvars, tvars, bvars>>
notC == <<wvars, gvars, evars, pvars, svars, kvars, avars, xvars, rvars, fvars, tvars, bvars>>
notE == <<wvars, gvars, cvars, pvars, svars, kvars, avars, xvars, rvars, fvars, tvars, bvars>>
notP == <<wvars, gvars, cvars, evars, svars, kvars, avars, xvars, rvars, fvars, tvars, bvars>>
notS == <<wvars, gvars, cvars, evars, pvars, kvars, avars, xvars, rvars, fvars, tvars, bvars>>
notK == <<wvars, gvars, cvars, evars, pvars, svars, avars, xvars, rvars, fvars, tvars, bvars>>
notA == <<wvars, gvars, cvars, evars, pvars, svars, kvars, xvars, rvars, fvars, tvars, bvars>>
notX == <<wvars, gvars, cvars, evars, pvars, svars, kvars, avars, rvars, fvars, tvars, bvars>>
notR == <<wvars, gvars, cvars, evars, pvars, svars, kvars, xvars, apc, classified_feedbacks, analytics, fvars, tvars, bvars>>
notF == <<wvars, gvars, cvars, evars, pvars, svars, kvars, avars, xvars, rvars, tvars, bvars>>
notT == <<wvars, gvars, cvars, evars, pvars, svars, kvars, avars, xvars, rvars, fvars, bvars>>
notB == <<wvars, gvars, cvars, evars, pvars, svars, kvars, avars, xvars, rvars, fvars, tvars>>

None == "None"

-----------------------------------------------------------------------------
(* Arithmetic helpers                                                      *)

Min2(a, b) == IF a <= b THEN a ELSE b
Max2(a, b) == IF a >= b THEN a ELSE b

\* Python's round() of the exact fraction n/d (d > 0): nearest integer, an
\* exact half going to the even neighbour.
PyRound(n, d) ==
    LET fl  == n \div d
        rem == n - fl * d
    IN  IF 2 * rem < d THEN fl
        ELSE IF 2 * rem > d THEN fl + 1
        ELSE IF fl % 2 = 0 THEN fl ELSE fl + 1

-----------------------------------------------------------------------------
(* Weight model: summary_helpers.py, compute_weight_row and its factors.   *)
(* Units: relevancy factor in 1/200, confidence factor in 1/125, evidence  *)
(* factor in 1/20, critical factor in 1/10; a weight in 1/WeightScale.     *)

EvidenceType == {"DATA", "BENCHMARK", "CITATION", "EXPERT_OPINION", "ANECDOTE", "ASSUMPTION"}

\* _EVIDENCE_WEIGHTS, in 1/20: 1.4, 1.25, 1.15, 1.05, 0.95, 0.85
EVIDENCE_WEIGHTS ==
    [e \in EvidenceType |->
        CASE e = "DATA"           -> 28
          [] e = "BENCHMARK"      -> 25
          [] e = "CITATION"       -> 23
          [] e = "EXPERT_OPINION" -> 21
          [] e = "ANECDOTE"       -> 19
          [] e = "ASSUMPTION"     -> 17]

WeightScale == 5000000

\* min(1.4, max(0.0, 0.6 + 0.8 * confidency)); confidency in hundredths
confidence_factor(confidency) == Min2(175, Max2(0, 75 + confidency))

\* 0.5 + 0.5 * max(0.0, min(1.0, relevancy)); relevancy is the raw column
\* value (an integer score), used without any division by 100
relevancy_factor(relevancy) == 100 + 100 * Max2(0, Min2(1, relevancy))

\* _EVIDENCE_WEIGHTS.get(evidence_type, 0.9)
evidence_type_factor(evidence_type) ==
    IF evidence_type \in DOMAIN EVIDENCE_WEIGHTS THEN EVIDENCE_WEIGHTS[evidence_type] ELSE 18

\* 1.1 if is_critical_opinion else 0.9
is_critical_opinion_factor(is_critical_opinion) == IF is_critical_opinion THEN 11 ELSE 9

WeightProduct(r) ==
    relevancy_factor(r.relevancy) * confidence_factor(r.confidence)
        * evidence_type_factor(r.evidence_type)
        * is_critical_opinion_factor(r.is_critical_opinion)

\* the product returned without the final clamp (mutant)
compute_weight_row_unclamped(r) == WeightProduct(r)

\* max(0.2, min(2.0, w))
compute_weight_row(r) ==
    Max2(WeightScale \div 5, Min2(2 * WeightScale, WeightProduct(r)))

\* Inputs of the weight model: relevancy scores and confidences (hundredths)
\* inside and outside their documented ranges 0..100 and 0.0..1.0, every
\* evidence type, an unknown one and a missing one.
RelSlack  == 2
ConfSlack == 80
RelevancyInputs  == (0 - RelSlack) .. (100 + RelSlack)
ConfidenceInputs == {c \in (0 - ConfSlack) .. (100 + ConfSlack) : c % 10 = 0}
EvidenceInputs   == EvidenceType \cup {"UNKNOWN", None}

WInit ==
    /\ wpc = "row"
    /\ row \in [relevancy : RelevancyInputs, confidence : ConfidenceInputs,
                evidence_type : EvidenceInputs, is_critical_opinion : BOOLEAN]
    /\ weight = None

\* step_b_add_weights: df.apply(compute_weight_row, axis=1), one row
step_b_add_weights ==
    /\ wpc = "row"
    /\ weight' = compute_weight_row(row)
    /\ wpc' = "weighted"
    /\ UNCHANGED <<row, notW>>

WIdle == wpc = "idle" /\ row = None /\ weight = None

-----------------------------------------------------------------------------
(* One cluster group: the rows of one theme label, as build_signal_panels  *)
(* and detect_dissent hand them to the helpers.  A row carries its option  *)
(* column value opt, its weight w (weight_score_algo, in 1/WUnit), its     *)
(* stance is_against and its sentiment.                                    *)

WUnit == 1000

Sentiment == {"POSITIVE", "NEUTRAL", "NEGATIVE"}
IsAgainst == {"YES", "NO", "MIXED"}
ImpactDirection == <<"HELPED", "NEUTRAL", "HURT">>
PriorityClass   == <<"MUST", "SHOULD", "COULD", "WONT">>

Range(s) == {s[i] : i \in 1..Len(s)}

RECURSIVE SeqSum(_)
SeqSum(s) == IF s = <<>> THEN 0 ELSE s[1] + SeqSum(Tail(s))

\* fractions <<n, d>>, d > 0
FracLess(x, y) == x[1] * y[2] < y[1] * x[2]
FracGeq(x, y)  == x[1] * y[2] >= y[1] * x[2]
FracZero == <<0, 1>>

\* the weights loop without the test "if opt in weights": the weight of a row
\* with a foreign option value is booked on the first allowed option (mutant)
OptionWeightsAll(grp, allowed) ==
    [o \in Range(allowed) |->
        SeqSum([i \in 1..Len(grp) |->
                   IF grp[i].opt = o \/ (grp[i].opt \notin Range(allowed) /\ o = allowed[1])
                   THEN grp[i].w ELSE 0])]

\* weights = {opt: 0.0 for opt in allowed_options}; for each row:
\* if opt in weights: weights[opt] += w
OptionWeights(grp, allowed) ==
    [o \in Range(allowed) |->
        SeqSum([i \in 1..Len(grp) |-> IF grp[i].opt = o THEN grp[i].w ELSE 0])]

\* sum(weights.values())
TotalW(weights, allowed) == SeqSum([i \in 1..Len(allowed) |-> weights[allowed[i]]])

\* max(shares.items(), key=lambda kv: kv[1]): the first item, in the order
\* of the dict (that of allowed_options), whose share is maximal
DominantIndex(shares, allowed) ==
    CHOOSE i \in 1..Len(allowed) :
        /\ \A j \in 1..(i - 1) : FracLess(shares[allowed[j]], shares[allowed[i]])
        /\ \A j \in (i + 1)..Len(allowed) : FracGeq(shares[allowed[i]], shares[allowed[j]])

\* the dominant share taken as the score, not normalised by 1/m (mutant)
ConsensusFormulaRaw(p, m) == PyRound(100 * p[1], p[2])

\* int(round(100.0 * (p - 1.0 / m) / (1.0 - 1.0 / m))) for p = n/d, m > 1
ConsensusFormula(p, m) == PyRound(100 * (p[1] * m - p[2]), p[2] * (m - 1))

Clamp0to100(c) == Max2(0, Min2(100, c))

consensus_score_for_group(grp, allowed) ==
    LET weights == OptionWeights(grp, allowed)
        total_w == TotalW(weights, allowed)
    IN  IF total_w <= 0
        THEN [option_weights  |-> weights,
              option_shares   |-> [k \in Range(allowed) |-> FracZero],
              dominant_option |-> None,
              consensus       |-> 0]
        ELSE LET shares == [k \in Range(allowed) |-> <<weights[k], total_w>>]
                 dom    == allowed[DominantIndex(shares, allowed)]
                 p      == shares[dom]
                 m      == Max2(1, Len(allowed))
                 consensus == IF m = 1 THEN 100 ELSE ConsensusFormula(p, m)
             IN  [option_weights  |-> weights,
                  option_shares   |-> shares,
                  dominant_option |-> dom,
                  consensus       |-> Clamp0to100(consensus)]

consensus_for_group(grp, allowed) ==
    LET weights == OptionWeights(grp, allowed)
        total_w == TotalW(weights, allowed)
        shares  == [k \in Range(allowed) |->
                       IF total_w > 0 THEN <<weights[k], total_w>> ELSE FracZero]
        dom     == IF total_w > 0 THEN allowed[DominantIndex(shares, allowed)] ELSE None
        p       == IF total_w > 0 THEN shares[dom] ELSE FracZero
        m       == Max2(1, Len(allowed))
        consensus == IF m = 1 THEN 100 ELSE ConsensusFormula(p, m)
    IN  [consensus       |-> Clamp0to100(consensus),
         dominant_option |-> dom,
         option_shares   |-> shares]

\* bool(x) of a Python str (IsAgainst is a str enum): true unless empty
Truthy(x) == x # ""

\* (stance and sent == POSITIVE) or (not stance and sent == NEGATIVE)
is_mismatch(r) ==
    \/ (Truthy(r.is_against) /\ r.sentiment = "POSITIVE")
    \/ (~Truthy(r.is_against) /\ r.sentiment = "NEGATIVE")

\* mismatch_weight_share as the fraction <<mismatch_w, total_w>>; 0.0 when
\* the group's total weight is not positive
mismatch_weight_share(grp) ==
    LET total_w    == SeqSum([i \in 1..Len(grp) |-> grp[i].w])
        mismatch_w == SeqSum([i \in 1..Len(grp) |-> IF is_mismatch(grp[i]) THEN grp[i].w ELSE 0])
    IN  IF total_w <= 0 THEN FracZero ELSE <<mismatch_w, total_w>>

\* sorted(xs, key=lambda kv: kv[1], reverse=True) of items <<k, fraction>>:
\* stable, so of equal keys the earlier one stays first
RECURSIVE SortedDesc(_)
SortedDesc(xs) ==
    IF xs = <<>> THEN <<>>
    ELSE LET i == CHOOSE i \in 1..Len(xs) :
                      /\ \A j \in 1..(i - 1) : FracLess(xs[j][2], xs[i][2])
                      /\ \A j \in (i + 1)..Len(xs) : FracGeq(xs[i][2], xs[j][2])
             rest == [k \in 1..(Len(xs) - 1) |-> IF k < i THEN xs[k] ELSE xs[k + 1]]
         IN  <<xs[i]>> \o SortedDesc(rest)

SharesItems(shares, allowed) == [i \in 1..Len(allowed) |-> <<allowed[i], shares[allowed[i]]>>]

BimodalShare == <<3, 10>>

\* only the largest share is tested (mutant)
bimodal_flag_top_only(option_shares, allowed) ==
    LET shares == SortedDesc(SharesItems(option_shares, allowed))
    IN  IF Len(shares) < 2 THEN FALSE ELSE FracGeq(shares[1][2], BimodalShare)

\* True if two options each hold >= 0.30 share
bimodal_flag(option_shares, allowed) ==
    LET shares == SortedDesc(SharesItems(option_shares, allowed))
    IN  IF Len(allowed) = 0 THEN FALSE
        ELSE IF Len(shares) < 2 THEN FALSE
        ELSE FracGeq(shares[1][2], BimodalShare) /\ FracGeq(shares[2][2], BimodalShare)

consensus_threshold == 20
MismatchThreshold   == <<1, 10>>

\* reasons of detect_dissent, appended in this order, one per true flag
DissentReasons(low_consensus, mismatch_flag, bi_flag, consensus, mm_share, shares, allowed) ==
    (IF low_consensus
        THEN <<[kind |-> "Low consensus", args |-> <<consensus, consensus_threshold>>]>>
        ELSE <<>>)
    \o (IF mismatch_flag
        THEN <<[kind |-> "Stance-sentiment mismatch weight",
                args |-> <<PyRound(100 * mm_share[1], mm_share[2]), 10>>]>>
        ELSE <<>>)
    \o (IF bi_flag
        THEN LET top_two == SubSeq(SortedDesc(SharesItems(shares, allowed)), 1, 2)
             IN  <<[kind |-> "Bimodal stance", args |-> <<top_two[1][1], top_two[2][1]>>]>>
        ELSE <<>>)

\* the reasons with the bimodal one left out (mutant)
DissentRowNoBimodalReason(grp, allowed) ==
    LET c  == consensus_for_group(grp, allowed)
        mm == mismatch_weight_share(grp)
        low_consensus == c.consensus < consensus_threshold
        mismatch_flag == FracGeq(mm, MismatchThreshold)
        bi_flag       == bimodal_flag(c.option_shares, allowed)
    IN  [consensus          |-> c.consensus,
         dominant_option    |-> c.dominant_option,
         option_shares      |-> c.option_shares,
         mismatch_share     |-> PyRound(10000 * mm[1], mm[2]),
         low_consensus_flag |-> low_consensus,
         mismatch_flag      |-> mismatch_flag,
         bimodal_flag       |-> bi_flag,
         dissent            |-> (low_consensus \/ mismatch_flag \/ bi_flag),
         dissent_reasons    |-> DissentReasons(low_consensus, mismatch_flag, FALSE,
                                               c.consensus, mm, c.option_shares, allowed)]

\* one row of detect_dissent; mismatch_share is round(mm_share, 4), kept in
\* ten-thousandths
DissentRow(grp, allowed) ==
    LET c  == consensus_for_group(grp, allowed)
        mm == mismatch_weight_share(grp)
        low_consensus == c.consensus < consensus_threshold
        mismatch_flag == FracGeq(mm, MismatchThreshold)
        bi_flag       == bimodal_flag(c.option_shares, allowed)
    IN  [consensus          |-> c.consensus,
         dominant_option    |-> c.dominant_option,
         option_shares      |-> c.option_shares,
         mismatch_share     |-> PyRound(10000 * mm[1], mm[2]),
         low_consensus_flag |-> low_consensus,
         mismatch_flag      |-> mismatch_flag,
         bimodal_flag       |-> bi_flag,
         dissent            |-> (low_consensus \/ mismatch_flag \/ bi_flag),
         dissent_reasons    |-> DissentReasons(low_consensus, mismatch_flag, bi_flag,
                                               c.consensus, mm, c.option_shares, allowed)]

-----------------------------------------------------------------------------
(* Inputs of the group helpers                                             *)

MaxOptItems    == 3
MaxStanceItems == 2

GroupWeights == {WUnit \div 2, WUnit}

\* allowed_options: two option lists of CATEGORY_FIELD_OPTIONS and lists of
\* zero, one and two options (the helpers take any list)
AllowedLists == {ImpactDirection, PriorityClass, <<>>, <<"HELPED">>, <<"HELPED", "HURT">>}

\* the groups of a groupby are never empty
SeqsUpTo(S, n) == UNION {[1..k -> S] : k \in 1..n}

\* rows whose option value is one of the allowed ones or a foreign one
OptRows(allowed) ==
    [opt : Range(allowed) \cup {"OTHER"}, w : GroupWeights,
     is_against : {"NO"}, sentiment : {"NEUTRAL"}]

\* rows of a FEEDBACK_RETROSPECTIVE group with every stance and sentiment
StanceRows ==
    [opt : {"HELPED", "HURT"}, w : GroupWeights, is_against : IsAgainst, sentiment : Sentiment]

\* 10 rows of weight 1.0: 6 HELPED, then 4 HURT
MixedGroup ==
    [i \in 1..10 |->
        IF i <= 6 THEN [opt |-> "HELPED", w |-> WUnit, is_against |-> "NO", sentiment |-> "POSITIVE"]
                  ELSE [opt |-> "HURT", w |-> WUnit, is_against |-> "YES", sentiment |-> "NEGATIVE"]]

\* one positive row against (weight 0.5) among three neutral rows of weights
\* 1.5, 1.5 and 1.501: its share of the weight is 500/5001 = 0.09998
NearThresholdGroup ==
    [i \in 1..4 |->
        IF i = 1 THEN [opt |-> "HELPED", w |-> 500, is_against |-> "YES", sentiment |-> "POSITIVE"]
                 ELSE [opt |-> "HELPED", w |-> IF i = 4 THEN 1501 ELSE 1500,
                       is_against |-> "NO", sentiment |-> "NEUTRAL"]]

GInit ==
    /\ gpc = {}
    /\ \/ /\ allowed_options \in AllowedLists
          /\ g \in SeqsUpTo(OptRows(allowed_options), MaxOptItems)
       \/ /\ allowed_options = ImpactDirection
          /\ g \in SeqsUpTo(StanceRows, MaxStanceItems) \cup {MixedGroup, NearThresholdGroup}
    /\ panel = None
    /\ dissent_row = None

\* _SENTIMENT_SCORE.get(sentiment, 0.0)
sentiment_score(sentiment) ==
    IF sentiment = "POSITIVE" THEN 1 ELSE IF sentiment = "NEGATIVE" THEN -1 ELSE 0

\* weighted_average(g["_sent_score"], g["weight_score_algo"]), None read as
\* 0.0: the weighted mean of the sentiment scores, as a fraction
Polarity(grp) ==
    LET total == SeqSum([i \in 1..Len(grp) |-> grp[i].w])
    IN  IF total <= 0 THEN FracZero
        ELSE <<SeqSum([i \in 1..Len(grp) |-> sentiment_score(grp[i].sentiment) * grp[i].w]), total>>

\* the panel row of one group: consensus, dominant option and shares, the
\* polarity and the bookkeeping columns
PanelRow(grp, allowed) ==
    LET info == consensus_score_for_group(grp, allowed)
    IN  [option_weights  |-> info.option_weights,
         option_shares   |-> info.option_shares,
         dominant_option |-> info.dominant_option,
         consensus       |-> info.consensus,
         polarity        |-> Polarity(grp),
         total_weight    |-> SeqSum([i \in 1..Len(grp) |-> grp[i].w]),
         count           |-> Len(grp)]

\* build_signal_panels, for one group (a group of a groupby is not empty)
build_signal_panels ==
    /\ g # <<>>
    /\ "panel" \notin gpc
    /\ panel' = PanelRow(g, allowed_options)
    /\ gpc' = gpc \cup {"panel"}
    /\ UNCHANGED <<g, allowed_options, dissent_row, notG>>

\* detect_dissent, for one group: its dissent row
detect_dissent ==
    /\ g # <<>>
    /\ "dissent" \notin gpc
    /\ dissent_row' = DissentRow(g, allowed_options)
    /\ gpc' = gpc \cup {"dissent"}
    /\ UNCHANGED <<g, allowed_options, panel, notG>>

-----------------------------------------------------------------------------
(* Theme clusterer: summary.py, step_c_cluster_themes_simple, and the      *)
(* string similarity of summary_helpers.py.  A string is the sequence of   *)
(* its character codes.                                                    *)

\* str.lower(), on the ASCII letters
LowerChar(c) == IF c >= 65 /\ c <= 90 THEN c + 32 ELSE c
Lower(s) == [i \in 1..Len(s) |-> LowerChar(s[i])]

IsSpace(c) == c = 32

\* [t for t in s.split() if t]: the maximal runs of non-blank characters
tokenize(s) ==
    {SubSeq(s, i, j) : <<i, j>> \in
        {x \in (1..Len(s)) \X (1..Len(s)) :
            /\ x[1] <= x[2]
            /\ \A k \in x[1]..x[2] : ~IsSpace(s[k])
            /\ (x[1] = 1 \/ IsSpace(s[x[1] - 1]))
            /\ (x[2] = Len(s) \/ IsSpace(s[x[2] + 1]))}}

\* inter / union, 0.0 when either set is empty
jaccard(a, b) ==
    IF a = {} \/ b = {} THEN FracZero
    ELSE <<Cardinality(a \cap b), Cardinality(a \cup b)>>

\* {s[i : i + n]}, or {s} for a non-empty s shorter than n
char_ngrams(s, n) ==
    IF Len(s) < n THEN (IF s # <<>> THEN {s} ELSE {})
    ELSE {SubSeq(s, i, i + n - 1) : i \in 1..(Len(s) - n + 1)}

\* difflib.SequenceMatcher.find_longest_match without junk, on a[alo..ahi-1]
\* and b[blo..bhi-1]: the longest block a[i..i+k-1] = b[j..j+k-1], of those
\* the one starting earliest in a, of those the one starting earliest in b;
\* k = 0 when no character matches
MatchCands(a, alo, ahi, b, blo, bhi) ==
    {x \in (alo..(ahi - 1)) \X (blo..(bhi - 1)) \X (1..Min2(ahi - alo, bhi - blo)) :
        /\ x[1] + x[3] <= ahi
        /\ x[2] + x[3] <= bhi
        /\ \A d \in 0..(x[3] - 1) : a[x[1] + d] = b[x[2] + d]}

find_longest_match(a, alo, ahi, b, blo, bhi) ==
    LET cands == MatchCands(a, alo, ahi, b, blo, bhi)
    IN  IF cands = {} THEN <<alo, blo, 0>>
        ELSE CHOOSE x \in cands :
                \A y \in cands :
                    \/ x[3] > y[3]
                    \/ (x[3] = y[3] /\ x[1] < y[1])
                    \/ (x[3] = y[3] /\ x[1] = y[1] /\ x[2] <= y[2])

\* sum of the sizes of get_matching_blocks(): the longest match, then the
\* same to its left and to its right
RECURSIVE MatchedSize(_, _, _, _, _, _)
MatchedSize(a, alo, ahi, b, blo, bhi) ==
    LET x == find_longest_match(a, alo, ahi, b, blo, bhi)
        i == x[1]
        j == x[2]
        k == x[3]
    IN  IF k = 0 THEN 0
        ELSE k + (IF alo < i /\ blo < j THEN MatchedSize(a, alo, i, b, blo, j) ELSE 0)
               + (IF i + k < ahi /\ j + k < bhi THEN MatchedSize(a, i + k, ahi, b, j + k, bhi) ELSE 0)

\* SequenceMatcher(None, a, b).ratio() = 2.0 * matches / (len(a) + len(b))
ratio(a, b) ==
    IF Len(a) + Len(b) = 0 THEN <<1, 1>>
    ELSE <<2 * MatchedSize(a, 1, Len(a) + 1, b, 1, Len(b) + 1), Len(a) + Len(b)>>

FracMax(x, y) == IF FracLess(x, y) THEN y ELSE x

\* the Jaccard similarity of the tokens alone (mutant)
cluster_similarity_tokens(t1, t2) ==
    IF t1 = <<>> \/ t2 = <<>> THEN FracZero
    ELSE jaccard(tokenize(Lower(t1)), tokenize(Lower(t2)))

\* max(j_tok, j_char, d) on the lower-cased strings; 0.0 for an empty one
cluster_similarity(t1, t2) ==
    IF t1 = <<>> \/ t2 = <<>> THEN FracZero
    ELSE LET a == Lower(t1)
             b == Lower(t2)
         IN  FracMax(FracMax(jaccard(tokenize(a), tokenize(b)),
                             jaccard(char_ngrams(a, 2), char_ngrams(b, 2))),
                     ratio(a, b))

sim_threshold == <<7, 20>>

\* lexicographic order of strings by character code
RECURSIVE StrLess(_, _)
StrLess(s, t) ==
    IF t = <<>> THEN FALSE
    ELSE IF s = <<>> THEN TRUE
    ELSE IF s[1] # t[1] THEN s[1] < t[1]
    ELSE StrLess(Tail(s), Tail(t))

ThemesOf(d) == {d[i].theme : i \in 1..Len(d)}
ThemeWeight(d, t) == SeqSum([i \in 1..Len(d) |-> IF d[i].theme = t THEN d[i].w ELSE 0])
ThemeCount(d, t)  == SeqSum([i \in 1..Len(d) |-> IF d[i].theme = t THEN 1 ELSE 0])

IsPermutationOf(s, S) == Len(s) = Cardinality(S) /\ Range(s) = S

\* df.groupby("theme")["weight_score_algo"].sum() followed by
\* sort_values("weight_score_algo", ascending=False): the one sort key is the
\* weight and the sort kind is pandas' default "quicksort", which is not a
\* stable sort, so the themes come out by weight descending and themes of
\* equal weight in an order the code does not fix.
SortedThemeOrders(d) ==
    {s \in [1..Cardinality(ThemesOf(d)) -> ThemesOf(d)] :
        /\ IsPermutationOf(s, ThemesOf(d))
        /\ \A i \in 1..(Len(s) - 1) : ThemeWeight(d, s[i]) >= ThemeWeight(d, s[i + 1])}

\* a sort that does not return the same order for the same input (mutant)
quicksort_unrepeatable(memo, key, outcomes) == outcomes

\* sort_values with the default kind: numpy's quicksort has no random choice,
\* so its result is a function of its input; which of the orders that the
\* sort keys allow it returns is not fixed by the code.  memo holds what the
\* sort returned for the inputs it has been called with.
quicksort(memo, key, outcomes) ==
    IF key \in DOMAIN memo THEN {memo[key]} ELSE outcomes

Memoize(memo, new) ==
    [k \in DOMAIN memo \cup DOMAIN new |-> IF k \in DOMAIN new THEN new[k] ELSE memo[k]]

\* the first cluster with any similarity > 0.0, not the best one (mutant)
FirstIdx(theme, cs) ==
    IF \A i \in 1..Len(cs) : cluster_similarity(theme, cs[i].label)[1] = 0 THEN 0
    ELSE CHOOSE i \in 1..Len(cs) :
            /\ cluster_similarity(theme, cs[i].label)[1] > 0
            /\ \A j \in 1..(i - 1) : cluster_similarity(theme, cs[j].label)[1] = 0

\* the loop "for i, c in enumerate(clusters)": the first cluster whose label
\* has the largest similarity to the theme, if that is > 0.0; 0 stands for
\* best_idx = None
BestIdx(theme, cs) ==
    IF \A i \in 1..Len(cs) : cluster_similarity(theme, cs[i].label)[1] = 0 THEN 0
    ELSE CHOOSE i \in 1..Len(cs) :
            /\ \A j \in 1..(i - 1) :
                  FracLess(cluster_similarity(theme, cs[j].label), cluster_similarity(theme, cs[i].label))
            /\ \A j \in (i + 1)..Len(cs) :
                  FracGeq(cluster_similarity(theme, cs[i].label), cluster_similarity(theme, cs[j].label))

\* best_idx is not None and best_sim >= sim_threshold
Attaches(theme, cs) ==
    /\ BestIdx(theme, cs) # 0
    /\ FracGeq(cluster_similarity(theme, cs[BestIdx(theme, cs)].label), sim_threshold)

\* the label taken over the whole df instead of the cluster's rows (mutant)
PickClusterLabelsOfDf(d, members) ==
    {CHOOSE t \in ThemesOf(d) : \A u \in ThemesOf(d) :
        \/ ThemeWeight(d, t) > ThemeWeight(d, u)
        \/ (ThemeWeight(d, t) = ThemeWeight(d, u) /\ ~StrLess(u, t))}

\* pick_cluster_label: the theme of the group with the highest weight sum,
\* then the highest count, then the smallest string; when several themes tie
\* on weight sum and count, the tied rows are re-sorted by label length
\* descending with the default (not stable) sort and the first is returned:
\* any of the longest tied themes
PickClusterLabels(d, members) ==
    LET top == CHOOSE t \in members :
                   \A u \in members \ {t} :
                       \/ ThemeWeight(d, t) > ThemeWeight(d, u)
                       \/ (ThemeWeight(d, t) = ThemeWeight(d, u) /\ ThemeCount(d, t) > ThemeCount(d, u))
                       \/ (ThemeWeight(d, t) = ThemeWeight(d, u) /\ ThemeCount(d, t) = ThemeCount(d, u)
                            /\ StrLess(t, u))
        tied == {t \in members : ThemeWeight(d, t) = ThemeWeight(d, top)
                                    /\ ThemeCount(d, t) = ThemeCount(d, top)}
    IN  IF Cardinality(tied) > 1
        THEN {t \in tied : \A u \in tied : Len(t) >= Len(u)}
        ELSE {top}

-----------------------------------------------------------------------------
(* Inputs of the clusterer                                                 *)

MaxRows == 3

\* "ab", "AB", "abx", "xy", "x y", "y x"
ThemeUniverse ==
    {<<97, 98>>, <<65, 66>>, <<97, 98, 120>>, <<120, 121>>, <<120, 32, 121>>, <<121, 32, 120>>}

ThemeWeights == {WUnit \div 2, WUnit}

\* "abcdefghijklmnopqrst" and "abcdefguvwxyz0123456": 7 matching characters
\* of 40, similarity exactly 0.35
BoundaryThemeA == [i \in 1..20 |-> 96 + i]
BoundaryThemeB == [i \in 1..20 |-> IF i <= 7 THEN 96 + i ELSE IF i <= 13 THEN 109 + i ELSE 34 + i]
BoundaryDf ==
    <<[theme |-> BoundaryThemeA, w |-> WUnit], [theme |-> BoundaryThemeB, w |-> WUnit \div 2]>>

CInit ==
    /\ cpc = "sort"
    /\ df \in UNION {[1..k -> [theme : ThemeUniverse, w : ThemeWeights]] : k \in 0..MaxRows}
               \cup {BoundaryDf}
    /\ unique_themes = <<>>
    /\ clusters = <<>>
    /\ theme_to_cluster = <<>>
    /\ cluster_labels = <<>>
    /\ sort_memo = <<>>
    /\ first_run = <<>>

\* unique_themes: the distinct themes, sorted by total weight
sort_themes ==
    /\ cpc = "sort"
    /\ unique_themes' \in quicksort(sort_memo, <<"unique_themes", ThemesOf(df)>>,
                                    SortedThemeOrders(df))
    /\ sort_memo' = Memoize(sort_memo, [k \in {<<"unique_themes", ThemesOf(df)>>} |-> unique_themes'])
    /\ cpc' = "loop"
    /\ UNCHANGED <<df, clusters, theme_to_cluster, cluster_labels, first_run, notC>>

NextTheme == unique_themes[Cardinality(DOMAIN theme_to_cluster) + 1]

\* one pass of "for theme in unique_themes" that attaches the theme
attach_theme ==
    /\ cpc = "loop"
    /\ Cardinality(DOMAIN theme_to_cluster) < Len(unique_themes)
    /\ Attaches(NextTheme, clusters)
    /\ LET best_idx == BestIdx(NextTheme, clusters)
       IN  /\ clusters' = [clusters EXCEPT ![best_idx].members = Append(@, NextTheme)]
           /\ theme_to_cluster' = [t \in DOMAIN theme_to_cluster \cup {NextTheme} |->
                                      IF t = NextTheme THEN clusters[best_idx].id
                                      ELSE theme_to_cluster[t]]
    /\ UNCHANGED <<cpc, df, unique_themes, cluster_labels, sort_memo, first_run, notC>>

\* one pass of "for theme in unique_themes" that starts a new cluster;
\* next_id is the number of clusters made so far
new_cluster ==
    /\ cpc = "loop"
    /\ Cardinality(DOMAIN theme_to_cluster) < Len(unique_themes)
    /\ ~Attaches(NextTheme, clusters)
    /\ LET next_id == Len(clusters)
       IN  /\ clusters' = Append(clusters,
                                 [id |-> next_id, members |-> <<NextTheme>>, label |-> NextTheme])
           /\ theme_to_cluster' = [t \in DOMAIN theme_to_cluster \cup {NextTheme} |->
                                      IF t = NextTheme THEN next_id ELSE theme_to_cluster[t]]
    /\ UNCHANGED <<cpc, df, unique_themes, cluster_labels, sort_memo, first_run, notC>>

\* the themes of the rows with theme_cluster_id = cid
ClusterThemes(cid) == {t \in DOMAIN theme_to_cluster : theme_to_cluster[t] = cid}

\* after the loop: theme_cluster_id per row and the label of every cluster
assign_labels ==
    /\ cpc = "loop"
    /\ Cardinality(DOMAIN theme_to_cluster) = Len(unique_themes)
    /\ cluster_labels' \in
          [{theme_to_cluster[t] : t \in DOMAIN theme_to_cluster} -> ThemesOf(df)]
    /\ \A cid \in DOMAIN cluster_labels' :
          cluster_labels'[cid] \in
              quicksort(sort_memo, <<"label_len", ClusterThemes(cid)>>,
                        PickClusterLabels(df, ClusterThemes(cid)))
    /\ sort_memo' = Memoize(sort_memo,
                            [k \in {<<"label_len", ClusterThemes(cid)>> : cid \in DOMAIN cluster_labels'}
                                |-> cluster_labels'[CHOOSE cid \in DOMAIN cluster_labels' :
                                                       k[2] = ClusterThemes(cid)]])
    /\ cpc' = "done"
    /\ UNCHANGED <<df, unique_themes, clusters, theme_to_cluster, first_run, notC>>

\* the clusterer is run again on the same state.df (the node works on a copy
\* and leaves state.df as it was); the outputs of the first run are kept
step_c_again ==
    /\ cpc = "done"
    /\ first_run = <<>>
    /\ first_run' = <<[theme_to_cluster |-> theme_to_cluster, cluster_labels |-> cluster_labels]>>
    /\ cpc' = "sort"
    /\ unique_themes' = <<>>
    /\ clusters' = <<>>
    /\ theme_to_cluster' = <<>>
    /\ cluster_labels' = <<>>
    /\ UNCHANGED <<df, sort_memo, notC>>

-----------------------------------------------------------------------------
(* Executive consensus card: summary.py, build_executive_consensus_card,   *)
(* and the bullet texts of summary_helpers.py.  A bullet is the record of  *)
(* the values its text is formatted from.                                  *)

Category == {"BINARY_PROPOSAL", "PRIORITIZATION_RANKING", "BRAINSTORMING_IDEATION",
             "FEEDBACK_RETROSPECTIVE", "FORECASTING_PLANNING"}

\* the option values of each category's field
CategoryOptions ==
    [c \in Category |->
        CASE c = "BINARY_PROPOSAL"        -> {"YES", "NO", "MAYBE"}
          [] c = "PRIORITIZATION_RANKING" -> {"MUST", "SHOULD", "COULD", "WONT"}
          [] c = "BRAINSTORMING_IDEATION" -> {"QUICK_WIN", "NEEDS_RESEARCH", "BIG_BET", "NOT_USEFUL"}
          [] c = "FEEDBACK_RETROSPECTIVE" -> {"HELPED", "NEUTRAL", "HURT"}
          [] c = "FORECASTING_PLANNING"   -> {"AHEAD", "ON_TRACK", "AT_RISK", "BLOCKED"}]

CATEGORY_FAVORABLE ==
    [c \in Category |->
        CASE c = "BINARY_PROPOSAL"        -> {"YES"}
          [] c = "PRIORITIZATION_RANKING" -> {"MUST", "SHOULD"}
          [] c = "BRAINSTORMING_IDEATION" -> {"QUICK_WIN", "BIG_BET"}
          [] c = "FEEDBACK_RETROSPECTIVE" -> {"HELPED"}
          [] c = "FORECASTING_PLANNING"   -> {"AHEAD", "ON_TRACK"}]

max_agree    == 5
max_disagree == 3
max_next     == 3
min_consensus_agree == 70
NextLowConsensus == 55
\* 0.5, in hundredths
LowConfidence == 50

\* order of two-column sort keys
KeyLess(a, b) == a[1] < b[1] \/ (a[1] = b[1] /\ a[2] < b[2])

\* DataFrame.sort_values on two columns: a stable sort (rows with equal keys
\* stay in their order); keys[i] is the key of rows[i], ascending
sort_values(rows, keys) ==
    LET Rank(j) == 1 + Cardinality({k \in 1..Len(rows) :
                        KeyLess(keys[k], keys[j]) \/ (keys[k] = keys[j] /\ k < j)})
    IN  [r \in 1..Len(rows) |-> rows[CHOOSE j \in 1..Len(rows) : Rank(j) = r]]

\* DataFrame.head(n)
head(rows, n) == SubSeq(rows, 1, Min2(n, Len(rows)))

\* the first bullet list with the favourable set ignored (mutant)
AgreeCandidatesAnyOption(panels, cat) ==
    LET IsAgree(r) == r.consensus >= min_consensus_agree
        cand == SelectSeq(panels, IsAgree)
    IN  sort_values(cand, [i \in 1..Len(cand) |-> <<-cand[i].consensus, -cand[i].total_weight>>])

\* panels[(consensus >= min_consensus_agree) & dominant_option.isin(fav)]
\*     .sort_values(["consensus", "total_weight"], ascending=[False, False])
AgreeCandidates(panels, cat) ==
    LET IsAgree(r) == r.consensus >= min_consensus_agree
                        /\ r.dominant_option \in CATEGORY_FAVORABLE[cat]
        cand == SelectSeq(panels, IsAgree)
    IN  sort_values(cand, [i \in 1..Len(cand) |-> <<-cand[i].consensus, -cand[i].total_weight>>])

\* dd.loc[label]: the row of dissent_df with that theme_label
DissentOf(dd, label) == dd[CHOOSE i \in 1..Len(dd) : dd[i].theme_label = label]
HasDissentRow(dd, label) == \E i \in 1..Len(dd) : dd[i].theme_label = label

\* the second bullet list sorted like the first (mutant)
DisagreeCandidatesDesc(panels, dd) ==
    LET IsDissent(r) == HasDissentRow(dd, r.theme_label) /\ DissentOf(dd, r.theme_label).dissent
        cand == SelectSeq(panels, IsDissent)
    IN  sort_values(cand, [i \in 1..Len(cand) |-> <<-cand[i].consensus, -cand[i].total_weight>>])

\* tmp["dissent"] = theme_label.map(dd["dissent"]).fillna(False);
\* tmp[tmp["dissent"]].sort_values(["consensus", "total_weight"], ascending=[True, False])
DisagreeCandidates(panels, dd) ==
    LET IsDissent(r) == HasDissentRow(dd, r.theme_label) /\ DissentOf(dd, r.theme_label).dissent
        cand == SelectSeq(panels, IsDissent)
    IN  sort_values(cand, [i \in 1..Len(cand) |-> <<cand[i].consensus, -cand[i].total_weight>>])

\* the third bullet list without the low-confidence clusters (mutant)
NextCandidatesMidOnly(panels) ==
    LET IsNext(r) == r.consensus >= NextLowConsensus /\ r.consensus < min_consensus_agree
        cand == SelectSeq(panels, IsNext)
    IN  sort_values(cand, [i \in 1..Len(cand) |-> <<cand[i].avg_confidence, cand[i].consensus>>])

\* panels[((consensus >= 55) & (consensus < min_consensus_agree)) | (avg_confidence < 0.5)]
\*     .sort_values(["avg_confidence", "consensus"], ascending=[True, True])
NextCandidates(panels) ==
    LET IsNext(r) == \/ (r.consensus >= NextLowConsensus /\ r.consensus < min_consensus_agree)
                     \/ r.avg_confidence < LowConfidence
        cand == SelectSeq(panels, IsNext)
    IN  sort_values(cand, [i \in 1..Len(cand) |-> <<cand[i].avg_confidence, cand[i].consensus>>])

bullet_agree_text(r) ==
    [theme_label |-> r.theme_label, lead |-> r.dominant_option]

\* "; ".join(dissent_row.get("dissent_reasons", [])[:3])
bullet_disagree_text(r, dissent_row_) ==
    [theme_label |-> r.theme_label, lead |-> r.dominant_option,
     reasons |-> SubSeq(dissent_row_.dissent_reasons, 1, Min2(3, Len(dissent_row_.dissent_reasons)))]

\* weak = number of ASSUMPTION / ANECDOTE items among top_evidence[:3]
WeakEvidence(r) ==
    Cardinality({i \in 1..Min2(3, Len(r.top_evidence)) :
                    r.top_evidence[i] \in {"ASSUMPTION", "ANECDOTE"}})

bullet_next_text(r) ==
    [theme_label |-> r.theme_label, lead |-> r.dominant_option,
     wording |-> IF WeakEvidence(r) >= 2 \/ r.avg_confidence < LowConfidence
                 THEN "clarify before deciding" ELSE "finalize decision"]

-----------------------------------------------------------------------------
(* Inputs of the executive consensus card: one profile per cluster, from   *)
(* which its row of panels_df and its row of dissent_df are made           *)

MaxRichPanels == 2
MaxPanels == 6

\* top_evidence lists, by evidence type: one weak item; two weak items among
\* the first three; two weak items after the first three
EvidenceLists ==
    {<<"ANECDOTE">>, <<"ASSUMPTION", "DATA", "ANECDOTE">>,
     <<"DATA", "DATA", "DATA", "ANECDOTE", "ASSUMPTION">>}

\* flags: the number of dissent flags other than the low-consensus flag
RichProfiles ==
    [consensus : {55, 69, 70}, dominant_option : {"HELPED", "HURT"}, total_weight : {WUnit, 2 * WUnit},
     avg_confidence : {49, 50}, top_evidence : EvidenceLists, flags : {0, 2}]
    \cup [consensus : {0}, dominant_option : {None, "HURT"}, total_weight : {WUnit, 2 * WUnit},
          avg_confidence : {49, 50}, top_evidence : EvidenceLists, flags : {0, 2}]
AgreeProfiles ==
    [consensus : {70, 90}, dominant_option : {"HELPED"}, total_weight : {WUnit, 2 * WUnit},
     avg_confidence : {80}, top_evidence : {<<"DATA">>}, flags : {0}]
DissentProfiles ==
    [consensus : {10, 30}, dominant_option : {"HURT"}, total_weight : {WUnit, 2 * WUnit},
     avg_confidence : {80}, top_evidence : {<<"DATA">>}, flags : {2}]
NextProfiles ==
    [consensus : {55, 69}, dominant_option : {"HELPED"}, total_weight : {WUnit},
     avg_confidence : {40, 80}, top_evidence : {<<"DATA">>}, flags : {0}]
CategoryProfiles(cat) ==
    [consensus : {69, 70}, dominant_option : CategoryOptions[cat], total_weight : {WUnit},
     avg_confidence : {80}, top_evidence : {<<"DATA">>}, flags : {0}]

\* build_signal_panels returns panels_df sorted by total_weight descending,
\* then consensus descending
PanelsSorted(profs) ==
    \A i \in 1..(Len(profs) - 1) :
        ~KeyLess(<<profs[i].total_weight, profs[i].consensus>>,
                 <<profs[i + 1].total_weight, profs[i + 1].consensus>>)

\* groupby sorts the labels; the label of the i-th of n panels is n + 1 - i
PanelsOf(profs) ==
    [i \in 1..Len(profs) |->
        [theme_label |-> Len(profs) + 1 - i, consensus |-> profs[i].consensus,
         dominant_option |-> profs[i].dominant_option, total_weight |-> profs[i].total_weight,
         avg_confidence |-> profs[i].avg_confidence, top_evidence |-> profs[i].top_evidence]]

\* the rows of detect_dissent: made in the order of the labels, then sorted
\* by dissent (true first) and consensus ascending
DissentDfOf(profs) ==
    LET rows == [l \in 1..Len(profs) |->
                    LET pr == profs[Len(profs) + 1 - l]
                        low == pr.consensus < consensus_threshold
                    IN  [theme_label |-> l, consensus |-> pr.consensus,
                         dissent |-> (low \/ pr.flags > 0),
                         dissent_reasons |->
                             (IF low THEN <<"Low consensus">> ELSE <<>>)
                             \o SubSeq(<<"Stance-sentiment mismatch weight", "Bimodal stance">>,
                                       1, pr.flags)]]
    IN  sort_values(rows, [i \in 1..Len(rows) |->
                              <<IF rows[i].dissent THEN 0 ELSE 1, rows[i].consensus>>])

CardInputs(cat) ==
    {profs \in UNION {[1..n -> CategoryProfiles(cat)] : n \in 1..1} : TRUE}
    \cup IF cat # "FEEDBACK_RETROSPECTIVE" THEN {}
         ELSE {profs \in UNION {[1..n -> RichProfiles] : n \in 1..MaxRichPanels} : PanelsSorted(profs)}
              \cup {profs \in [1..MaxPanels -> AgreeProfiles] : PanelsSorted(profs)}
              \cup {profs \in [1..MaxPanels -> DissentProfiles] : PanelsSorted(profs)}
              \cup {profs \in [1..MaxPanels -> NextProfiles] : PanelsSorted(profs)}

ECInit ==
    /\ epc = "card"
    /\ category \in Category
    /\ \E profs \in CardInputs(category) :
          /\ panels_df = PanelsOf(profs)
          /\ dissent_df = DissentDfOf(profs)
    /\ what_we_agree_on = <<>>
    /\ where_we_disagree = <<>>
    /\ what_to_decide_next = <<>>

build_executive_consensus_card ==
    /\ epc = "card"
    /\ LET agree_candidates    == head(AgreeCandidates(panels_df, category), max_agree)
           disagree_candidates == head(DisagreeCandidates(panels_df, dissent_df), max_disagree)
           next_candidates     == head(NextCandidates(panels_df), max_next)
       IN  /\ what_we_agree_on' =
                  [i \in 1..Len(agree_candidates) |-> bullet_agree_text(agree_candidates[i])]
           /\ where_we_disagree' =
                  [i \in 1..Len(disagree_candidates) |->
                      bullet_disagree_text(disagree_candidates[i],
                                           DissentOf(dissent_df, disagree_candidates[i].theme_label))]
           /\ what_to_decide_next' =
                  [i \in 1..Len(next_candidates) |-> bullet_next_text(next_candidates[i])]
    /\ epc' = "done"
    /\ UNCHANGED <<category, panels_df, dissent_df, notE>>

EIdle ==
    /\ epc = "idle" /\ category = "FEEDBACK_RETROSPECTIVE" /\ panels_df = <<>> /\ dissent_df = <<>>
    /\ what_we_agree_on = <<>> /\ where_we_disagree = <<>> /\ what_to_decide_next = <<>>

-----------------------------------------------------------------------------
(* Evidence ranking (summary_helpers.py, top_evidence_items) and the       *)
(* against_top7 list of the LLM payload (summary.py, build_llm_payload)    *)

top_evidence_n == 5

\* the ranking made by sorting ascending and reversing the list, which turns
\* the order of items of equal score around (mutant)
top_evidence_items_reversed(grp, top_n) ==
    LET scores == [i \in 1..Len(grp) |->
                      [score |-> evidence_type_factor(grp[i].evidence_type) * grp[i].weight_score_algo,
                       evidence_type |-> grp[i].evidence_type, w |-> grp[i].weight_score_algo,
                       text |-> grp[i].text]]
    IN  head(sort_values(scores, [i \in 1..Len(scores) |-> <<-scores[i].score, -i>>]), Max2(0, top_n))

\* scores.sort(key=lambda x: x[0], reverse=True): list.sort is stable, also
\* with reverse=True; then scores[:max(0, int(top_n))]
top_evidence_items(grp, top_n) ==
    LET scores == [i \in 1..Len(grp) |->
                      [score |-> evidence_type_factor(grp[i].evidence_type) * grp[i].weight_score_algo,
                       evidence_type |-> grp[i].evidence_type, w |-> grp[i].weight_score_algo,
                       text |-> grp[i].text]]
    IN  head(sort_values(scores, [i \in 1..Len(scores) |-> <<-scores[i].score, 0>>]), Max2(0, top_n))

\* Series.astype(str).str.lower() on a column of IsAgainst members: the
\* lower-cased value, or the lower-cased str() of the member where the
\* conversion calls str() on it
astype_str_lower(v) ==
    CASE v = "YES"   -> {"yes", "isagainst.yes"}
      [] v = "NO"    -> {"no", "isagainst.no"}
      [] v = "MIXED" -> {"mixed", "isagainst.mixed"}

\* mask = df["is_against"].astype(str).str.lower().eq("true")
against_mask(r) == "true" \in astype_str_lower(r.is_against)

\* DataFrame.nlargest(n, "weight_score_algo", keep="all"): the rows of the n
\* largest weights, largest first, with every row that ties with the last
nlargest_keep_all(rows, n) ==
    LET sorted == sort_values(rows, [i \in 1..Len(rows) |-> <<-rows[i].weight_score_algo, 0>>])
        IsKept(r) == Len(sorted) <= n \/ r.weight_score_algo >= sorted[n].weight_score_algo
    IN  SelectSeq(sorted, IsKept)

\* df.loc[mask, cols].nlargest(7, "weight_score_algo", keep="all")
AgainstTop7(d) ==
    LET IsMasked(r) == against_mask(r)
        sel == SelectSeq(d, IsMasked)
        cols == [i \in 1..Len(sel) |->
                    [weight_score_algo |-> sel[i].weight_score_algo, text |-> sel[i].text,
                     is_against |-> sel[i].is_against, sentiment |-> sel[i].sentiment]]
    IN  nlargest_keep_all(cols, 7)

MaxItems == 3

\* rows of the surviving df: HEARSAY stands for an evidence type outside
\* the lookup table
ItemRows ==
    [evidence_type : {"DATA", "ANECDOTE", "HEARSAY"}, weight_score_algo : {WUnit \div 2, WUnit},
     is_against : IsAgainst, sentiment : {"NEGATIVE"}]
\* more rows than top_evidence_n
SixItemRows ==
    [i \in 1..6 |->
        [evidence_type |-> IF i \in {2, 4, 5} THEN "DATA" ELSE "ANECDOTE",
         weight_score_algo |-> IF i = 4 THEN WUnit \div 2 ELSE WUnit,
         is_against |-> IF i = 6 THEN "YES" ELSE "NO", sentiment |-> "NEGATIVE"]]
\* the text of a row stands for its place in the input
WithText(rows) ==
    [i \in 1..Len(rows) |->
        [evidence_type |-> rows[i].evidence_type, weight_score_algo |-> rows[i].weight_score_algo,
         is_against |-> rows[i].is_against, sentiment |-> rows[i].sentiment, text |-> i]]

\* a df whose rows all fall in one cluster: the group is the whole df
PLInit ==
    /\ ppc = {}
    /\ \E rows \in SeqsUpTo(ItemRows, MaxItems) \cup {SixItemRows} :
          /\ payload_df = WithText(rows)
          /\ evidence_g = WithText(rows)
    /\ top_evidence = <<>>
    /\ against_top7 = <<>>

\* build_signal_panels, for one group: its ranked evidence list
rank_evidence ==
    /\ "evidence" \notin ppc
    /\ top_evidence' = top_evidence_items(evidence_g, top_evidence_n)
    /\ ppc' = ppc \cup {"evidence"}
    /\ UNCHANGED <<evidence_g, payload_df, against_top7, notP>>

\* build_llm_payload: the against_top7 entry of the payload
build_llm_payload ==
    /\ "payload" \notin ppc
    /\ against_top7' = AgainstTop7(payload_df)
    /\ ppc' = ppc \cup {"payload"}
    /\ UNCHANGED <<evidence_g, payload_df, top_evidence, notP>>

PIdle ==
    /\ ppc = {} /\ evidence_g = <<>> /\ top_evidence = <<>> /\ payload_df = <<>> /\ against_top7 = <<>>

-----------------------------------------------------------------------------
(* The summarizer's structured response: types.py, Summary, and            *)
(* summary.py, generate_summary. A JSON object is a record of optional     *)
(* values: <<>> for an absent key, <<v>> for a key present with value v.   *)

SummaryKeys == {"main_summary", "conflicting_statement", "top_weighted_points"}

Has(obj, k) == obj[k] # <<>>

\* Summary(**obj): main_summary and conflicting_statement are Field(...),
\* required; top_weighted_points is Field(default_factory=list); a key the
\* model does not declare is ignored. The result is <<>> when validation
\* raises, else the one Summary.
Summary(obj) ==
    IF ~Has(obj, "main_summary") \/ ~Has(obj, "conflicting_statement")
    THEN <<>>
    ELSE << [main_summary |-> obj.main_summary[1],
             conflicting_statement |-> obj.conflicting_statement[1],
             top_weighted_points |-> IF Has(obj, "top_weighted_points")
                                     THEN obj.top_weighted_points[1] ELSE <<>>] >>

\* what the summarizer may answer; "conficting_statement" is the key the
\* system prompt asks for
LlmOutputs ==
    [main_summary : {<<>>, <<"">>, <<"summary">>},
     conflicting_statement : {<<>>, <<"">>, <<"conflicts">>},
     conficting_statement : {<<>>, <<"conflicts">>},
     top_weighted_points : {<<>>, << <<>> >>, << <<"q1">> >>, << <<"q1", "q2">> >>}]

SInit ==
    /\ spc = "start"
    /\ llm_output \in LlmOutputs
    /\ summary = <<>>
    /\ summary_error = None

\* generate_summary: the chain parses the response into a Summary; a
\* validation error leaves the node and ends the run
generate_summary ==
    /\ spc = "start"
    /\ summary' = Summary(llm_output)
    /\ summary_error' = IF Summary(llm_output) = <<>> THEN "ValidationError" ELSE None
    /\ spc' = "done"
    /\ UNCHANGED <<llm_output, notS>>

-----------------------------------------------------------------------------
(* Per-feedback classification: feedback_classifier.py,                    *)
(* classify_single_feedback. The parsed response is a JSON object as       *)
(* above; a confidence is a number of tenths; the value of "aspects" is    *)
(* <<"list", items>> for a JSON array and <<"str", s>> for a JSON string.  *)

required_keys   == {"sentiment", "confidence", "intent", "aspects"}
valid_sentiments == {"positive", "neutral", "negative"}
valid_intents    == {"praise", "complaint", "suggestion", "neutral"}
valid_aspects    ==
    {"content", "speaker", "organization", "time_management",
     "interaction", "venue", "audio", "overall"}

\* isinstance(v, list)
IsList(v) == v[1] = "list"

\* the body of classify_single_feedback after json.loads: <<>> when a
\* ValueError is raised (re-raised as Exception("Classification failed")),
\* else the one returned dict
ClassifyResult(obj) ==
    IF \E k \in required_keys : ~Has(obj, k) THEN <<>>
    ELSE IF obj.sentiment[1] \notin valid_sentiments THEN <<>>
    ELSE IF obj.intent[1] \notin valid_intents THEN <<>>
    ELSE IF ~IsList(obj.aspects[1]) THEN <<>>
    ELSE LET IsValidAspect(a) == a \in valid_aspects
         IN  << [sentiment |-> obj.sentiment[1],
                 intent |-> obj.intent[1],
                 aspects |-> SelectSeq(obj.aspects[1][2], IsValidAspect),
                 confidence |-> Max2(0, Min2(10, obj.confidence[1])),
                 issue_label |-> IF Has(obj, "issue_label") THEN obj.issue_label[1] ELSE None,
                 evidence_quote |-> IF Has(obj, "evidence_quote") THEN obj.evidence_quote[1] ELSE None] >>

\* what the classifier may answer: "mixed", "rant" and "food" lie outside
\* the declared domains, -0.5 and 1.5 outside the declared range
Responses ==
    [sentiment : {<<>>, <<"positive">>, <<"negative">>, <<"mixed">>},
     confidence : {<<>>, <<-5>>, <<0>>, <<7>>, <<10>>, <<15>>},
     intent : {<<"praise">>, <<"complaint">>, <<"rant">>},
     aspects : {<< <<"str", "audio">> >>, << <<"list", <<>>>> >>, << <<"list", <<"audio">>>> >>,
                << <<"list", <<"food">>>> >>, << <<"list", <<"audio", "food">>>> >>,
                << <<"list", <<"food", "venue", "audio">>>> >>},
     issue_label : {<<>>, <<"noisy_venue">>},
     evidence_quote : {<<>>, <<"too loud">>}]

KInit ==
    /\ kpc = "start"
    /\ response \in Responses
    /\ result = <<>>
    /\ classify_error = None

classify_single_feedback ==
    /\ kpc = "start"
    /\ result' = ClassifyResult(response)
    /\ classify_error' = IF ClassifyResult(response) = <<>> THEN "Exception" ELSE None
    /\ kpc' = "done"
    /\ UNCHANGED <<response, notK>>

-----------------------------------------------------------------------------
(* Event-level aggregation: analytics_aggregator.py,                       *)
(* aggregate_feedback_analytics and extract_representative_quotes. A dict  *)
(* is a function on its keys, a confidence a number of tenths, the         *)
(* satisfaction score a number of hundredths of a percent point.           *)

\* bool(v) of a value that is None or a string
IsTruthy(v) == v # None /\ v # ""

\* Counter(items)[x]
CountOf(items, x) == Cardinality({i \in 1..Len(items) : items[i] = x})

\* the keys of Counter(items), in the order of their first occurrence
CounterKeys(items) ==
    LET IsFirst(i) == \A j \in 1..(i - 1) : items[j] # items[i]
        firsts == {i \in 1..Len(items) : IsFirst(i)}
        nth(k) == CHOOSE i \in firsts : Cardinality({j \in firsts : j < i}) = k - 1
    IN  [k \in 1..Cardinality(firsts) |-> items[nth(k)]]

\* sorted(items, key=..., reverse=True): a stable sort, largest key first;
\* keys[i] is the key of items[i]
sorted_reverse(items, keys) ==
    LET Rank(j) == 1 + Cardinality({k \in 1..Len(items) :
                        keys[k] > keys[j] \/ (keys[k] = keys[j] /\ k < j)})
    IN  [r \in 1..Len(items) |-> items[CHOOSE j \in 1..Len(items) : Rank(j) = r]]

\* the keys of Counter(items).most_common(n), in their order
most_common_keys(items, n) ==
    LET ks == CounterKeys(items)
    IN  head(sorted_reverse(ks, [i \in 1..Len(ks) |-> CountOf(items, ks[i])]), n)

\* dict(Counter(items).most_common(n))
most_common(items, n) ==
    [k \in Range(most_common_keys(items, n)) |-> CountOf(items, k)]

\* the aspects of the feedbacks of one sentiment, one list after the other
RECURSIVE AspectsOfSentiment(_, _)
AspectsOfSentiment(fbs, sent) ==
    IF fbs = <<>> THEN <<>>
    ELSE (IF Head(fbs).sentiment = sent THEN Head(fbs).aspects ELSE <<>>)
            \o AspectsOfSentiment(Tail(fbs), sent)

\* the branch the loop over issue labels takes for one feedback
IsSpecificIssue(fb) ==
    /\ IsTruthy(fb.issue_label)
    /\ fb.sentiment \in {"negative", "neutral"}
    /\ fb.intent \in {"complaint", "suggestion"}
IsSpecificStrength(fb) ==
    /\ IsTruthy(fb.issue_label)
    /\ ~IsSpecificIssue(fb)
    /\ fb.sentiment = "positive"
    /\ fb.intent = "praise"

\* specific_issues / specific_strengths built from the feedbacks of one
\* branch (in input order): per label its count, its first two non-empty
\* evidence quotes and the sentiment of its first feedback
SpecificOf(branch) ==
    [label \in {branch[i].issue_label : i \in 1..Len(branch)} |->
        LET IsLabel(fb) == fb.issue_label = label
            HasQuote(fb) == IsTruthy(fb.evidence_quote)
            of == SelectSeq(branch, IsLabel)
            quoted == SelectSeq(of, HasQuote)
        IN  [count |-> Len(of),
             evidence_quotes |-> [i \in 1..Min2(2, Len(quoted)) |-> quoted[i].evidence_quote],
             sentiment |-> of[1].sentiment]]

max_quotes_per_aspect == 2
\* "if confidence < 0.7: continue"
QuoteConfidence == 7

\* extract_representative_quotes
extract_representative_quotes(fbs, texts) ==
    LET Usable(fb) == fb.feedback_id \in DOMAIN texts /\ ~(fb.confidence < QuoteConfidence)
        usable == SelectSeq(fbs, Usable)
        aspects == UNION {Range(usable[i].aspects) : i \in 1..Len(usable)}
    IN  [a \in aspects |->
            LET HasAspect(fb) == a \in Range(fb.aspects)
                quotes == SelectSeq(usable, HasAspect)
                sorted_quotes == sorted_reverse(quotes, [i \in 1..Len(quotes) |-> quotes[i].confidence])
                selected == head(sorted_quotes, max_quotes_per_aspect)
            IN  [i \in 1..Len(selected) |-> texts[selected[i].feedback_id]]]

\* the dict aggregate_feedback_analytics returns
Analytics(fbs, texts) ==
    LET total == Len(fbs)
        sentiments == [i \in 1..Len(fbs) |-> fbs[i].sentiment]
        intents == [i \in 1..Len(fbs) |-> fbs[i].intent]
        positive_count == CountOf(sentiments, "positive")
        IsIssue(fb) == IsSpecificIssue(fb)
        IsStrength(fb) == IsSpecificStrength(fb)
    IN  IF total = 0
        THEN [total_responses |-> 0,
              positive_count |-> 0,
              neutral_count |-> 0,
              negative_count |-> 0,
              satisfaction_score |-> 0,
              top_strengths |-> <<>>,
              top_issues |-> <<>>,
              intent_summary |-> <<>>,
              representative_quotes |-> <<>>]
        ELSE [total_responses |-> total,
              positive_count |-> positive_count,
              neutral_count |-> CountOf(sentiments, "neutral"),
              negative_count |-> CountOf(sentiments, "negative"),
              satisfaction_score |-> PyRound(positive_count * 10000, total),
              top_strengths |-> most_common(AspectsOfSentiment(fbs, "positive"), 5),
              top_issues |-> most_common(AspectsOfSentiment(fbs, "negative"), 5),
              specific_strengths |-> SpecificOf(SelectSeq(fbs, IsStrength)),
              specific_issues |-> SpecificOf(SelectSeq(fbs, IsIssue)),
              intent_summary |-> [k \in Range(intents) |-> CountOf(intents, k)],
              representative_quotes |-> extract_representative_quotes(fbs, texts)]

MaxFeedbacks == 3

\* classified feedbacks as classify_with_id returns them on success
FeedbackProfiles ==
    { [feedback_id |-> 1, sentiment |-> "positive", intent |-> "praise", aspects |-> <<"audio">>,
       confidence |-> 9, issue_label |-> "great_sound", evidence_quote |-> "sound was great"],
      [feedback_id |-> 2, sentiment |-> "negative", intent |-> "complaint", aspects |-> <<"audio", "venue">>,
       confidence |-> 8, issue_label |-> "noisy_venue", evidence_quote |-> "too loud"],
      [feedback_id |-> 3, sentiment |-> "negative", intent |-> "complaint", aspects |-> <<"venue">>,
       confidence |-> 10, issue_label |-> "noisy_venue", evidence_quote |-> None],
      [feedback_id |-> 1, sentiment |-> "neutral", intent |-> "suggestion", aspects |-> <<"content">>,
       confidence |-> 7, issue_label |-> "lack_of_breaks", evidence_quote |-> "more breaks"],
      [feedback_id |-> 2, sentiment |-> "positive", intent |-> "neutral", aspects |-> <<"venue", "audio">>,
       confidence |-> 5, issue_label |-> None, evidence_quote |-> None],
      [feedback_id |-> 4, sentiment |-> "neutral", intent |-> "neutral", aspects |-> <<>>,
       confidence |-> 10, issue_label |-> "", evidence_quote |-> None] }

\* the original texts by feedback id; feedback 4 has none
feedback_texts == [i \in 1..3 |-> i]

AInit ==
    /\ apc = "start"
    /\ classified_feedbacks \in {<<>>} \cup SeqsUpTo(FeedbackProfiles, MaxFeedbacks)
    /\ analytics = <<>>

aggregate_feedback_analytics ==
    /\ apc = "start"
    /\ analytics' = <<Analytics(classified_feedbacks, feedback_texts)>>
    /\ apc' = "done"
    /\ UNCHANGED <<classified_feedbacks, notA>>

-----------------------------------------------------------------------------
(* One run of summary_graph: summary.py, summary_graph_builder and the     *)
(* nodes' reads and writes of SummaryGraphState. The graph runs in steps:  *)
(* the nodes of a step run concurrently on the state the step started      *)
(* with, their updates are applied when all have returned, and a node runs *)
(* in the next step when a plain edge into it comes from a node of this    *)
(* step or when every source of a joined edge into it has run.             *)
(* A state field is <<>> while unset and <<v>> once written. df is its     *)
(* column names and its rows; a field derived from df is the set of the    *)
(* ids of the messages it was computed from.                               *)

START == "__start__"
Nodes ==
    {"prepare_dataframe", "step_a_filter", "step_b_add_weights", "step_c_cluster_themes_simple",
     "build_signal_panels", "detect_dissent", "build_executive_consensus_card",
     "build_theme_leaderboard", "build_evidence_board", "build_sentiment_emotion_heatmap",
     "build_llm_payload", "generate_summary"}
\* add_edge(a, b)
Edges ==
    {<<START, "prepare_dataframe">>, <<"prepare_dataframe", "step_a_filter">>,
     <<"step_a_filter", "step_b_add_weights">>,
     <<"step_b_add_weights", "step_c_cluster_themes_simple">>,
     <<"step_c_cluster_themes_simple", "build_signal_panels">>,
     <<"step_c_cluster_themes_simple", "detect_dissent">>,
     <<"build_signal_panels", "build_theme_leaderboard">>,
     <<"build_signal_panels", "build_evidence_board">>,
     <<"build_signal_panels", "build_sentiment_emotion_heatmap">>,
     <<"build_llm_payload", "generate_summary">>}
\* add_edge([a, b, ...], c), the joins into a node (the join into END
\* starts no node)
Joins ==
    {<<{"build_signal_panels", "detect_dissent"}, "build_executive_consensus_card">>,
     <<{"step_c_cluster_themes_simple", "build_executive_consensus_card", "build_evidence_board"},
       "build_llm_payload">>}

StateFields ==
    {"df", "cluster_summary", "panels_df", "dissent_df", "what_we_agree_on", "where_we_disagree",
     "what_to_decide_next", "theme_board", "evidence_board", "sentiment_table", "emotion_table",
     "payload", "summary"}

\* the columns of the frame prepare_dataframe builds from at least one
\* message: "id" and the fields of the dimensions
DimensionColumns ==
    {"id", "theme", "sentiment", "emotion", "is_critical_opinion", "risk_flag", "confidence",
     "relevancy", "is_against", "evidence_type", "text", "impact_direction"}

\* min_relevancy = 0.6 against the integer relevancy (0..100), in tenths
min_relevancy == 6

\* the filter without its risk_flag clause (mutant)
FilterRowsRelevancyOnly(rows) ==
    LET Keep(r) == r.relevancy * 10 >= min_relevancy
    IN  SelectSeq(rows, Keep)

\* step_a_filter: df.loc[(~risk_flag) & (relevancy >= min_relevancy)]
FilterRows(rows) ==
    LET Keep(r) == ~r.risk_flag /\ r.relevancy * 10 >= min_relevancy
    IN  SelectSeq(rows, Keep)

IdsOf(rows) == {rows[i].id : i \in 1..Len(rows)}

\* a joined edge starts its node when each of its sources has run; with
\* one of them (mutant)
JoinReadyAny(j, ran) == ran # {}
JoinReady(j, ran) == ran = j[1]

\* the state fields a node dereferences (state.f.copy(), state.f.head(),
\* state.f[...]): on a field still None that raises
Derefs(n) ==
    CASE n \in {"prepare_dataframe", "generate_summary"} -> {}
      [] n \in {"step_a_filter", "step_b_add_weights", "step_c_cluster_themes_simple",
                "build_signal_panels", "detect_dissent"} -> {"df"}
      [] n = "build_executive_consensus_card" -> {"panels_df", "dissent_df"}
      [] n \in {"build_theme_leaderboard", "build_evidence_board",
                "build_sentiment_emotion_heatmap"} -> {"panels_df"}
      [] n = "build_llm_payload" -> {"evidence_board", "df"}

\* what a node returns on the state st: <<"raise", error>> or <<"ok", update>>
NodeUpdate(n, st) ==
    LET d == st.df[1]
        Ids(f) == IF st[f] = <<>> THEN {} ELSE st[f][1]
        Df(cols, rows) == [f \in {"df"} |-> <<[columns |-> cols, rows |-> rows]>>]
        Missing(req) == req \ d.columns
        Ok(u) == <<"ok", u>>
        Raise(err) == <<"raise", err>>
    IN  CASE \E f \in Derefs(n) : st[f] = <<>> -> Raise("AttributeError")
          [] n = "prepare_dataframe" ->
                \* a frame built from no record has no columns
                Ok(Df(IF messages = <<>> THEN {} ELSE DimensionColumns,
                      [i \in 1..Len(messages) |->
                          [id |-> i, risk_flag |-> messages[i].risk_flag,
                           relevancy |-> messages[i].relevancy]]))
          [] n = "step_a_filter" ->
                IF Missing({"risk_flag", "relevancy"}) # {} THEN Raise("ValueError")
                ELSE Ok(Df(d.columns, FilterRows(d.rows)))
          [] n = "step_b_add_weights" ->
                IF Missing({"relevancy", "confidence", "evidence_type", "is_critical_opinion"}) # {}
                THEN Raise("ValueError")
                \* df.apply(f, axis=1) of a frame without rows is a copy of
                \* the frame, and a frame of several columns cannot be set
                \* as the one column weight_score_algo
                ELSE IF d.rows = <<>> THEN Raise("ValueError")
                ELSE Ok(Df(d.columns \cup {"weight_score_algo"}, d.rows))
          [] n = "step_c_cluster_themes_simple" ->
                IF "theme" \notin d.columns THEN Raise("ValueError")
                ELSE Ok(Df(d.columns \cup {"theme_cluster_id", "theme_cluster_label"}, d.rows)
                        @@ [f \in {"cluster_summary"} |-> <<IdsOf(d.rows)>>])
          [] n = "build_signal_panels" ->
                IF Missing({"sentiment", "emotion", "evidence_type", "confidence", "text",
                            "weight_score_algo", "impact_direction"}) # {}
                THEN Raise("ValueError")
                ELSE Ok([f \in {"panels_df"} |-> <<IdsOf(d.rows)>>])
          [] n = "detect_dissent" ->
                Ok([f \in {"dissent_df"} |-> <<IdsOf(d.rows)>>])
          [] n = "build_executive_consensus_card" ->
                Ok([f \in {"what_we_agree_on", "where_we_disagree", "what_to_decide_next"} |->
                       <<st.panels_df[1] \cup st.dissent_df[1]>>])
          [] n = "build_theme_leaderboard" ->
                Ok([f \in {"theme_board"} |-> <<st.panels_df[1]>>])
          [] n = "build_evidence_board" ->
                \* without evidence rows the node returns a DataFrame, which
                \* is no state update
                IF st.panels_df[1] = {} THEN Raise("InvalidUpdateError")
                ELSE Ok([f \in {"evidence_board"} |-> <<st.panels_df[1]>>])
          [] n = "build_sentiment_emotion_heatmap" ->
                Ok([f \in {"sentiment_table", "emotion_table"} |-> <<st.panels_df[1]>>])
          [] n = "build_llm_payload" ->
                Ok([f \in {"payload"} |->
                       <<Ids("what_we_agree_on") \cup Ids("where_we_disagree")
                            \cup Ids("evidence_board") \cup IdsOf(d.rows)>>])
          [] n = "generate_summary" ->
                Ok([f \in {"summary"} |-> <<Ids("payload")>>])

MaxMessages == 3
\* the dimensions of a message: risk flag and relevancy (0..100)
MessageRows == [risk_flag : BOOLEAN, relevancy : {0, 1, 60}]

XInit ==
    /\ messages \in {<<>>} \cup SeqsUpTo(MessageRows, MaxMessages)
    /\ channels = [f \in StateFields |-> <<>>]
    /\ tasks = {n \in Nodes : <<START, n>> \in Edges}
    /\ finished = {}
    /\ writes = <<>>
    /\ seen = [j \in Joins |-> {}]
    /\ order = <<>>
    /\ graph_status = "running"

\* one node of the current step runs to its end (order: the node and the
\* nodes of earlier steps, which had finished when it started); an
\* exception ends the run
run_task ==
    /\ graph_status = "running"
    /\ \E n \in tasks \ finished :
          LET out == NodeUpdate(n, channels)
          IN  /\ finished' = finished \cup {n}
              /\ order' = Append(order, [node |-> n, after |-> {order[i].node : i \in 1..Len(order)} \ finished])
              /\ IF out[1] = "raise"
                 THEN /\ graph_status' = out[2]
                      /\ UNCHANGED writes
                 ELSE /\ writes' = Append(writes, out[2])
                      /\ UNCHANGED graph_status
    /\ UNCHANGED <<messages, channels, tasks, seen, notX>>

\* the end of a step: the updates are applied and the next step's nodes
\* are chosen; the run ends when there is none
apply_writes ==
    /\ graph_status = "running"
    /\ tasks # {}
    /\ finished = tasks
    /\ LET written(f) == {i \in 1..Len(writes) : f \in DOMAIN writes[i]}
           seen_now == [j \in Joins |-> seen[j] \cup (j[1] \cap tasks)]
           next == {n \in Nodes :
                       \/ \E m \in tasks : <<m, n>> \in Edges
                       \/ \E j \in Joins : j[2] = n /\ JoinReady(j, seen_now[j])}
       IN  \* two updates of one field in a step are an InvalidUpdateError
           IF \E f \in StateFields : Cardinality(written(f)) > 1
           THEN /\ graph_status' = "InvalidUpdateError"
                /\ UNCHANGED <<channels, tasks, finished, writes, seen>>
           ELSE /\ channels' = [f \in StateFields |->
                                   IF written(f) = {} THEN channels[f]
                                   ELSE writes[CHOOSE i \in written(f) : TRUE][f]]
                /\ seen' = [j \in Joins |-> IF JoinReady(j, seen_now[j]) THEN {} ELSE seen_now[j]]
                /\ tasks' = next
                /\ finished' = {}
                /\ writes' = <<>>
                /\ graph_status' = IF next = {} THEN "ended" ELSE "running"
    /\ UNCHANGED <<messages, order, notX>>

XIdle ==
    /\ messages = <<>> /\ channels = <<>> /\ tasks = {} /\ finished = {} /\ writes = <<>>
    /\ seen = <<>> /\ order = <<>> /\ graph_status = "idle"

-----------------------------------------------------------------------------
(* The event report: report_generator.py, generate_event_report and        *)
(* generate_report_with_fallback, on the analytics of the aggregation.     *)
(* The answer of the LLM call is its kind ("error": the call raises;       *)
(* "text": no JSON; "array": JSON that is no object; "object") and, for an *)
(* object, its keys.                                                       *)

report_keys == {"executive_summary", "strengths", "improvements", "recommendations"}

\* generate_event_report without its check of the keys (mutant)
generate_event_report_unchecked(an, resp) ==
    IF an.total_responses = 0
    THEN <<[k \in report_keys |-> "no feedback"]>>
    ELSE IF resp.kind # "object" THEN <<>>
    ELSE <<[k \in resp.keys |-> "llm"]>>

\* generate_event_report: <<>> when it raises, else the one returned dict
generate_event_report(an, resp) ==
    IF "total_responses" \notin DOMAIN an THEN <<>>
    ELSE IF an.total_responses = 0
    THEN <<[k \in report_keys |-> "no feedback"]>>
    \* call_llm raises; json.loads raises; result.keys() raises
    ELSE IF resp.kind # "object" THEN <<>>
    ELSE IF ~(report_keys \subseteq resp.keys) THEN <<>>
    ELSE <<[k \in resp.keys |-> "llm"]>>

\* the report of the except branch: strengths and issues are the dict's
\* items (in its order, given as top_s and top_i) sorted by count, the
\* first three; a list is empty when the dict is
FallbackReport(an, top_s, top_i) ==
    LET Get(k) == IF k \in DOMAIN an THEN an[k] ELSE 0
        Top3(d, ks) == head(sorted_reverse([i \in 1..Len(ks) |-> <<ks[i], d[ks[i]]>>],
                                           [i \in 1..Len(ks) |-> d[ks[i]]]), 3)
    IN  [executive_summary |->
            [total |-> Get("total_responses"), satisfaction |-> Get("satisfaction_score"),
             positive |-> Get("positive_count"),
             well_received |-> Get("satisfaction_score") >= 7000],
         strengths |-> Top3(an.top_strengths, top_s),
         improvements |-> Top3(an.top_issues, top_i),
         recommendations |-> "review the analytics"]

LlmReportResponses ==
    [kind : {"error", "text", "array"}, keys : {{}}]
    \cup [kind : {"object"}, keys : SUBSET (report_keys \cup {"notes"})]

RInit ==
    /\ llm_report_response \in LlmReportResponses
    /\ report = <<>>
    /\ report_raised = None

generate_report_with_fallback ==
    /\ apc = "done"
    /\ report = <<>>
    /\ report_raised = None
    /\ LET an == analytics[1]
           tried == generate_event_report(an, llm_report_response)
       IN  report' = IF tried # <<>> THEN tried
                     ELSE <<FallbackReport(an,
                               most_common_keys(AspectsOfSentiment(classified_feedbacks, "positive"), 5),
                               most_common_keys(AspectsOfSentiment(classified_feedbacks, "negative"), 5))>>
    /\ UNCHANGED <<report_raised, llm_report_response, notR>>

RIdle == llm_report_response = <<>> /\ report = <<>> /\ report_raised = None

-----------------------------------------------------------------------------
(* Parallel classification: feedback_classifier.py,                        *)
(* classify_feedbacks_parallel. One task per feedback is handed to a       *)
(* thread pool of max_workers threads, which takes the tasks in the order  *)
(* they were submitted; asyncio.gather returns the tasks' results in the   *)
(* order of the tasks, or raises when a task raised.                       *)

max_workers == 10

\* classify_with_id without its except branch (mutant)
classify_with_id_uncaught(fb) ==
    IF fb.fails THEN <<"raise", "Exception">>
    ELSE <<"return", [feedback_id |-> fb.id, status |-> "success", sentiment |-> fb.sentiment]>>

\* classify_with_id: what the task of one feedback returns;
\* classify_single_feedback raises for a feedback with fails = TRUE
classify_with_id(fb) ==
    IF fb.fails
    THEN <<"return", [feedback_id |-> fb.id, status |-> "failed", error |-> "Classification failed"]>>
    ELSE <<"return", [feedback_id |-> fb.id, status |-> "success", sentiment |-> fb.sentiment]>>

MaxParallel == 3
\* more feedbacks than threads
ManyFeedbacks == 11

\* feedback i has id 100 + i; the classifier's answer depends on its text
FeedbackLists ==
    {[i \in 1..n |-> [id |-> 100 + i, fails |-> i \in bad,
                      sentiment |-> IF i % 2 = 0 THEN "positive" ELSE "negative"]] :
        n \in 0..MaxParallel, bad \in SUBSET (1..MaxParallel)}
    \cup {[i \in 1..ManyFeedbacks |->
              [id |-> 100 + i, fails |-> i \in bad,
               sentiment |-> IF i % 2 = 0 THEN "positive" ELSE "negative"]] :
            bad \in {{}, {3}, 1..ManyFeedbacks}}

FInit ==
    /\ feedbacks \in FeedbackLists
    /\ started = 0
    /\ running = {}
    /\ task_result = [i \in 1..Len(feedbacks) |-> <<>>]
    /\ attempts = [i \in 1..Len(feedbacks) |-> 0]
    /\ results = <<>>
    /\ gather_raised = None

\* a free thread of the pool takes the next submitted task
worker_start ==
    /\ results = <<>> /\ gather_raised = None
    /\ started < Len(feedbacks)
    /\ Cardinality(running) < max_workers
    /\ started' = started + 1
    /\ running' = running \cup {started + 1}
    /\ attempts' = [attempts EXCEPT ![started + 1] = @ + 1]
    /\ UNCHANGED <<feedbacks, task_result, results, gather_raised, notF>>

\* a running task returns (or raises)
worker_finish ==
    /\ \E i \in running :
          /\ task_result' = [task_result EXCEPT ![i] = classify_with_id(feedbacks[i])]
          /\ running' = running \ {i}
    /\ UNCHANGED <<feedbacks, started, attempts, results, gather_raised, notF>>

\* results = await asyncio.gather(*tasks), once every task is done
gather ==
    /\ results = <<>> /\ gather_raised = None
    /\ Len(feedbacks) > 0
    /\ \A i \in 1..Len(feedbacks) : task_result[i] # <<>>
    /\ IF \E i \in 1..Len(feedbacks) : task_result[i][1] = "raise"
       THEN /\ gather_raised' = "Exception"
            /\ UNCHANGED results
       ELSE /\ results' = [i \in 1..Len(feedbacks) |-> task_result[i][2]]
            /\ UNCHANGED gather_raised
    /\ UNCHANGED <<feedbacks, started, running, task_result, attempts, notF>>

FIdle ==
    /\ feedbacks = <<>> /\ started = 0 /\ running = {} /\ task_result = <<>> /\ attempts = <<>>
    /\ results = <<>> /\ gather_raised = None

-----------------------------------------------------------------------------
(* Analysis runs of one event: pipeline.py, run_analysis_pipeline and      *)
(* check_and_trigger_analysis; routes/analysis.py, trigger_analysis.       *)
(* Every request works on its own database session (db.py, get_session).   *)
(* The session loads the event row once and hands the loaded object back   *)
(* on the next session.get, so a request decides on the status it read     *)
(* when it loaded the row. A step of a request is what it does between two *)
(* database round trips; the steps of two requests served by different     *)
(* processes (several server workers, the scheduled pending check)         *)
(* interleave freely, as nothing in the code locks the event row.          *)

\* the manual trigger route and the periodic check of pending events
Requests == {"manual", "pending"}

\* the columns of theme_board (build_theme_leaderboard)
theme_board_columns ==
    {"theme_label", "consensus", "dominant_option", "dom_share",
     "avg_confidence", "total_weight", "count"}

\* the minimum number of ACCEPT-quality feedback
min_feedback == 3

\* how the external calls of one run turn out
CallOutcomes ==
    [extraction : BOOLEAN, summarization : BOOLEAN,
     database : {"ok", "refresh_fails", "statement_fails"}]

AllCallsSucceed(c) == c.extraction /\ c.summarization /\ c.database = "ok"

\* the body of the try block of run_analysis_pipeline: the exception it
\* raises, or None when it reaches the end. n is the number of ACCEPT
\* feedback of the event, k the number of them that step_a_filter keeps.
try_block(n, k, c) ==
    IF c.database = "statement_fails" THEN "OperationalError"
    ELSE IF n < min_feedback THEN "ValueError"
    ELSE IF ~c.extraction THEN "Exception"
    \* summary_graph.invoke: step_b raises on a frame without rows
    ELSE IF k = 0 THEN "ValueError"
    ELSE IF ~c.summarization THEN "Exception"
    \* theme_board has a row: row["theme_cluster_label"]
    ELSE IF "theme_cluster_label" \notin theme_board_columns THEN "KeyError"
    ELSE None

MaxAccept == 4

TInit ==
    /\ analysis_status \in {"PENDING", "COMPLETED", "FAILED"}
    /\ analysis_runs = (IF analysis_status = "PENDING" THEN <<>>
                        ELSE <<[status |-> analysis_status, by |-> "earlier"]>>)
    /\ accept_count \in 2..MaxAccept
    /\ surviving \in 0..accept_count
    /\ tpc = [p \in Requests |-> "idle"]
    /\ cached_status = [p \in Requests |-> None]
    /\ run_id = [p \in Requests |-> 0]
    /\ calls = [p \in Requests |-> <<>>]
    /\ pipeline_raised = [p \in Requests |-> None]

\* POST /events/{event_id}/trigger: loads the event, answers 409 when it is
\* RUNNING, or COMPLETED without force, else calls run_analysis_pipeline
trigger_analysis ==
    /\ tpc["manual"] = "idle"
    /\ \E force \in BOOLEAN :
          /\ cached_status' = [cached_status EXCEPT !["manual"] = analysis_status]
          /\ tpc' = [tpc EXCEPT !["manual"] =
                IF analysis_status = "RUNNING" THEN "rejected"
                ELSE IF analysis_status = "COMPLETED" /\ ~force THEN "rejected"
                ELSE "pipeline"]
    /\ UNCHANGED <<analysis_status, analysis_runs, accept_count, surviving,
                   run_id, calls, pipeline_raised, notT>>

\* check_and_trigger_analysis: selects the events whose status is PENDING
\* and calls run_analysis_pipeline for each
check_and_trigger_analysis ==
    /\ tpc["pending"] = "idle"
    /\ IF analysis_status = "PENDING"
       THEN /\ cached_status' = [cached_status EXCEPT !["pending"] = analysis_status]
            /\ tpc' = [tpc EXCEPT !["pending"] = "pipeline"]
       ELSE /\ tpc' = [tpc EXCEPT !["pending"] = "skipped"]
            /\ UNCHANGED cached_status
    /\ UNCHANGED <<analysis_status, analysis_runs, accept_count, surviving,
                   run_id, calls, pipeline_raised, notT>>

\* run_analysis_pipeline up to its first commit: the check of the status
\* the session holds, then the new AnalysisRun and the event set to RUNNING
start_run(p) ==
    /\ tpc[p] = "pipeline"
    /\ IF cached_status[p] = "RUNNING"
       THEN /\ tpc' = [tpc EXCEPT ![p] = "rejected"]
            /\ pipeline_raised' = [pipeline_raised EXCEPT ![p] = "ValueError"]
            /\ UNCHANGED <<analysis_status, analysis_runs, run_id>>
       ELSE /\ analysis_runs' = Append(analysis_runs, [status |-> "RUNNING", by |-> p])
            /\ analysis_status' = "RUNNING"
            /\ run_id' = [run_id EXCEPT ![p] = Len(analysis_runs) + 1]
            /\ tpc' = [tpc EXCEPT ![p] = "try"]
            /\ UNCHANGED pipeline_raised
    /\ UNCHANGED <<accept_count, surviving, cached_status, calls, notT>>

\* the rest of run_analysis_pipeline: session.refresh, the try block, and
\* the except branch, whose own commit can fail once a statement has failed
finish_run(p) ==
    /\ tpc[p] = "try"
    /\ \E c \in CallOutcomes, handler_commits \in BOOLEAN :
          LET exc == try_block(accept_count, surviving, c)
              SetStatus(s) ==
                  /\ analysis_runs' = [analysis_runs EXCEPT ![run_id[p]].status = s]
                  /\ analysis_status' = s
          IN  /\ c.database = "ok" => handler_commits
              /\ calls' = [calls EXCEPT ![p] = <<c>>]
              /\ IF c.database = "refresh_fails"
                 THEN /\ tpc' = [tpc EXCEPT ![p] = "raised"]
                      /\ pipeline_raised' = [pipeline_raised EXCEPT ![p] = "OperationalError"]
                      /\ UNCHANGED <<analysis_status, analysis_runs>>
                 ELSE IF exc = None
                 THEN /\ SetStatus("COMPLETED")
                      /\ tpc' = [tpc EXCEPT ![p] = "returned"]
                      /\ UNCHANGED pipeline_raised
                 ELSE /\ IF handler_commits THEN SetStatus("FAILED")
                         ELSE UNCHANGED <<analysis_status, analysis_runs>>
                      /\ tpc' = [tpc EXCEPT ![p] = "raised"]
                      /\ pipeline_raised' = [pipeline_raised EXCEPT ![p] = exc]
    /\ UNCHANGED <<accept_count, surviving, cached_status, run_id, notT>>

TIdle ==
    /\ analysis_status = None /\ analysis_runs = <<>> /\ accept_count = 0 /\ surviving = 0
    /\ tpc = <<>> /\ cached_status = <<>> /\ run_id = <<>> /\ calls = <<>>
    /\ pipeline_raised = <<>>

-----------------------------------------------------------------------------
(* The simple report: simple_feedback_report.py,                           *)
(* extract_dimensions_for_feedbacks and generate_simple_report. The        *)
(* feedbacks are sent to dimension extraction in batches; a batch is       *)
(* retried when the extraction raises; the extracted dimensions of all     *)
(* batches are collected in one list and attached to the feedbacks by      *)
(* position.                                                               *)

BATCH_SIZE == 4
max_retries == 3

\* the texts of the feedbacks, all different
FeedbackTexts == <<"f1", "f2", "f3", "f4", "f5", "f6", "f7", "f8", "f9">>

\* what the extraction reads out of a text
SentimentOfText(t) ==
    LET i == CHOOSE j \in 1..Len(FeedbackTexts) : FeedbackTexts[j] = t
    IN  IF i % 3 = 0 THEN "POSITIVE" ELSE IF i % 3 = 1 THEN "NEGATIVE" ELSE "NEUTRAL"

\* dimension_extraction_graph.invoke on a batch: one dimension record per
\* message of the batch, in the order of the messages
ExtractBatch(batch) ==
    [i \in 1..Len(batch) |->
        [extracted_from |-> batch[i].text, sentiment |-> SentimentOfText(batch[i].text)]]

\* feedbacks[batch_idx:batch_idx + BATCH_SIZE], batch_idx counted from 0
BatchAt(fs, idx) == SubSeq(fs, idx + 1, Min2(idx + BATCH_SIZE, Len(fs)))

\* the number of the batch that starts at idx
BatchNum(idx) == (idx \div BATCH_SIZE) + 1

MaxReportFeedbacks == 9

BInit ==
    /\ \E n \in 0..MaxReportFeedbacks :
          /\ report_feedbacks = [i \in 1..n |->
                [text |-> FeedbackTexts[i], sentiment |-> <<>>, dimension |-> <<>>]]
          /\ attempts_made = [b \in 1..((n + BATCH_SIZE - 1) \div BATCH_SIZE) |-> <<>>]
    /\ bpc = "extract"
    /\ batch_idx = 0
    /\ attempt = 0
    /\ all_dimensions = <<>>
    /\ simple_report = <<>>

\* one pass of the retry loop of extract_dimensions_for_feedbacks on the
\* current batch; after a success, or after the last failed attempt, the
\* batch's dimensions (none after a failure) are appended and the next
\* batch is taken
extract_attempt ==
    /\ bpc = "extract"
    /\ batch_idx < Len(report_feedbacks)
    /\ \E ok \in BOOLEAN :
          LET batch == BatchAt(report_feedbacks, batch_idx)
              batch_dimensions == IF ok THEN ExtractBatch(batch) ELSE <<>>
          IN  /\ attempts_made' = [attempts_made EXCEPT ![BatchNum(batch_idx)] = Append(@, ok)]
              /\ IF ok \/ attempt + 1 >= max_retries
                 THEN /\ all_dimensions' = all_dimensions \o batch_dimensions
                      /\ batch_idx' = batch_idx + BATCH_SIZE
                      /\ attempt' = 0
                 ELSE /\ attempt' = attempt + 1
                      /\ UNCHANGED <<all_dimensions, batch_idx>>
    /\ UNCHANGED <<bpc, report_feedbacks, simple_report, notB>>

\* texts of the feedbacks whose sentiment is s
TextsWithSentiment(fs, s) ==
    LET F[i \in 0..Len(fs)] ==
            IF i = 0 THEN <<>>
            ELSE IF fs[i].sentiment = <<s>> THEN Append(F[i - 1], fs[i].text) ELSE F[i - 1]
    IN  F[Len(fs)]

\* feedbacks[i]['sentiment'], feedbacks[i]['dimension'] for i, dim in
\* enumerate(dimensions) with i < len(feedbacks)
AttachDimensions(fs, dims) ==
    [i \in 1..Len(fs) |->
        IF i <= Len(dims)
        THEN [fs[i] EXCEPT !.sentiment = <<dims[i].sentiment>>, !.dimension = <<dims[i]>>]
        ELSE fs[i]]

\* generate_simple_report once extract_dimensions_for_feedbacks has
\* returned: attaches the dimensions, groups the texts by sentiment and
\* returns the basic summary (fewer than 3 feedbacks) or the summary of the
\* language model, whose call can raise
generate_simple_report ==
    /\ bpc = "extract"
    /\ batch_idx >= Len(report_feedbacks)
    /\ bpc' = "done"
    /\ IF report_feedbacks = <<>>
       THEN /\ simple_report' = <<[kind |-> "empty", dimensions |-> <<>>,
                                   positive |-> <<>>, negative |-> <<>>, neutral |-> <<>>]>>
            /\ UNCHANGED report_feedbacks
       ELSE \E llm_ok \in BOOLEAN :
            LET fs == AttachDimensions(report_feedbacks, all_dimensions)
                kind == IF Len(fs) < 3 THEN "basic" ELSE IF llm_ok THEN "llm" ELSE "raised"
            IN  /\ report_feedbacks' = fs
                /\ simple_report' =
                      <<[kind |-> kind, dimensions |-> all_dimensions,
                         positive |-> TextsWithSentiment(fs, "POSITIVE"),
                         negative |-> TextsWithSentiment(fs, "NEGATIVE"),
                         neutral |-> TextsWithSentiment(fs, "NEUTRAL")]>>
    /\ UNCHANGED <<batch_idx, attempt, attempts_made, all_dimensions, notB>>

BIdle ==
    /\ bpc = "idle" /\ report_feedbacks = <<>> /\ batch_idx = 0 /\ attempt = 0
    /\ attempts_made = <<>> /\ all_dimensions = <<>> /\ simple_report = <<>>

SIdle == spc = "idle" /\ llm_output = <<>> /\ summary = <<>> /\ summary_error = None
KIdle == kpc = "idle" /\ response = <<>> /\ result = <<>> /\ classify_error = None
AIdle == apc = "idle" /\ classified_feedbacks = <<>> /\ analytics = <<>>

CIdle ==
    /\ cpc = "idle" /\ df = <<>> /\ unique_themes = <<>> /\ clusters = <<>>
    /\ theme_to_cluster = <<>> /\ cluster_labels = <<>>
    /\ sort_memo = <<>> /\ first_run = <<>>

GIdle == gpc = {} /\ g = <<>> /\ allowed_options = <<>> /\ panel = None /\ dissent_row = None

InitWeight == WInit /\ GIdle /\ CIdle /\ EIdle /\ PIdle /\ SIdle /\ KIdle /\ AIdle /\ XIdle /\ RIdle /\ FIdle /\ TIdle /\ BIdle
NextWeight == step_b_add_weights
SpecWeight == InitWeight /\ [][NextWeight]_vars

InitGroup == GInit /\ WIdle /\ CIdle /\ EIdle /\ PIdle /\ SIdle /\ KIdle /\ AIdle /\ XIdle /\ RIdle /\ FIdle /\ TIdle /\ BIdle
NextGroup == build_signal_panels \/ detect_dissent
SpecGroup == InitGroup /\ [][NextGroup]_vars

\* "audio issues" and "audio problems"
AudioIssues   == <<97, 117, 100, 105, 111, 32, 105, 115, 115, 117, 101, 115>>
AudioProblems == <<97, 117, 100, 105, 111, 32, 112, 114, 111, 98, 108, 101, 109, 115>>

\* the input of step C for five items, three on "audio issues" (weight 0.5
\* each, 1.5 together) and two on "audio problems" (0.6 each, 1.2 together),
\* in any order of the rows, each item HURT with negative sentiment or
\* HELPED with positive sentiment
PipelineRows ==
    [theme : {AudioIssues}, w : {WUnit \div 2}, opt : {"HURT"}, is_against : {"NO"}, sentiment : {"NEGATIVE"}]
    \cup [theme : {AudioIssues}, w : {WUnit \div 2}, opt : {"HELPED"}, is_against : {"NO"}, sentiment : {"POSITIVE"}]
    \cup [theme : {AudioProblems}, w : {(3 * WUnit) \div 5}, opt : {"HURT"}, is_against : {"NO"}, sentiment : {"NEGATIVE"}]
    \cup [theme : {AudioProblems}, w : {(3 * WUnit) \div 5}, opt : {"HELPED"}, is_against : {"NO"}, sentiment : {"POSITIVE"}]
PipelineDfs ==
    {d \in [1..5 -> PipelineRows] :
        /\ ThemeCount(d, AudioIssues) = 3
        /\ ThemeCount(d, AudioProblems) = 2}

PInit ==
    /\ cpc = "sort"
    /\ df \in PipelineDfs
    /\ unique_themes = <<>>
    /\ clusters = <<>>
    /\ theme_to_cluster = <<>>
    /\ cluster_labels = <<>>
    /\ sort_memo = <<>>
    /\ first_run = <<>>

\* "for theme_label, g in x.groupby(theme_col)" on the clustered df, with
\* theme_col = "theme_cluster_label" and the option column and options of
\* CATEGORY_FIELD_OPTIONS[FEEDBACK_RETROSPECTIVE]: g is the rows of one label
groupby_cluster_label ==
    /\ cpc = "done"
    /\ g = <<>>
    /\ \E label \in {cluster_labels[cid] : cid \in DOMAIN cluster_labels} :
          LET idx == {i \in 1..Len(df) : cluster_labels[theme_to_cluster[df[i].theme]] = label}
              nth(k) == CHOOSE i \in idx : Cardinality({j \in idx : j < i}) = k - 1
          IN  g' = [k \in 1..Cardinality(idx) |->
                       [opt |-> df[nth(k)].opt, w |-> df[nth(k)].w,
                        is_against |-> df[nth(k)].is_against, sentiment |-> df[nth(k)].sentiment]]
    /\ allowed_options' = ImpactDirection
    /\ UNCHANGED <<gpc, panel, dissent_row, wvars, cvars, evars, pvars, svars, kvars, avars, xvars, rvars, fvars, tvars, bvars>>

InitCluster == CInit /\ WIdle /\ GIdle /\ EIdle /\ PIdle /\ SIdle /\ KIdle /\ AIdle /\ XIdle /\ RIdle /\ FIdle /\ TIdle /\ BIdle
NextCluster == sort_themes \/ attach_theme \/ new_cluster \/ assign_labels \/ step_c_again
SpecCluster == InitCluster /\ [][NextCluster]_vars

InitCard == ECInit /\ WIdle /\ GIdle /\ CIdle /\ PIdle /\ SIdle /\ KIdle /\ AIdle /\ XIdle /\ RIdle /\ FIdle /\ TIdle /\ BIdle
NextCard == build_executive_consensus_card
SpecCard == InitCard /\ [][NextCard]_vars

InitPayload == PLInit /\ WIdle /\ GIdle /\ CIdle /\ EIdle /\ SIdle /\ KIdle /\ AIdle /\ XIdle /\ RIdle /\ FIdle /\ TIdle /\ BIdle
NextPayload == rank_evidence \/ build_llm_payload
SpecPayload == InitPayload /\ [][NextPayload]_vars

InitSummary == SInit /\ WIdle /\ GIdle /\ CIdle /\ EIdle /\ PIdle /\ KIdle /\ AIdle /\ XIdle /\ RIdle /\ FIdle /\ TIdle /\ BIdle
NextSummary == generate_summary
SpecSummary == InitSummary /\ [][NextSummary]_vars

InitClassify == KInit /\ WIdle /\ GIdle /\ CIdle /\ EIdle /\ PIdle /\ SIdle /\ AIdle /\ XIdle /\ RIdle /\ FIdle /\ TIdle /\ BIdle
NextClassify == classify_single_feedback
SpecClassify == InitClassify /\ [][NextClassify]_vars

InitAggregate == AInit /\ WIdle /\ GIdle /\ CIdle /\ EIdle /\ PIdle /\ SIdle /\ KIdle /\ XIdle /\ RIdle /\ FIdle /\ TIdle /\ BIdle
NextAggregate == aggregate_feedback_analytics
SpecAggregate == InitAggregate /\ [][NextAggregate]_vars

InitGraph == XInit /\ WIdle /\ GIdle /\ CIdle /\ EIdle /\ PIdle /\ SIdle /\ KIdle /\ AIdle /\ RIdle /\ FIdle /\ TIdle /\ BIdle
NextGraph == run_task \/ apply_writes
SpecGraph == InitGraph /\ [][NextGraph]_vars

\* the aggregation followed by the report
InitReport == AInit /\ RInit /\ WIdle /\ GIdle /\ CIdle /\ EIdle /\ PIdle /\ SIdle /\ KIdle /\ XIdle /\ FIdle /\ TIdle /\ BIdle
NextReport == aggregate_feedback_analytics \/ generate_report_with_fallback
SpecReport == InitReport /\ [][NextReport]_vars

InitParallel == FInit /\ WIdle /\ GIdle /\ CIdle /\ EIdle /\ PIdle /\ SIdle /\ KIdle /\ AIdle /\ XIdle /\ RIdle /\ TIdle /\ BIdle
NextParallel == worker_start \/ worker_finish \/ gather
SpecParallel == InitParallel /\ [][NextParallel]_vars

InitAnalysis == TInit /\ WIdle /\ GIdle /\ CIdle /\ EIdle /\ PIdle /\ SIdle /\ KIdle /\ AIdle /\ XIdle /\ RIdle /\ FIdle /\ BIdle
NextAnalysis ==
    \/ trigger_analysis
    \/ check_and_trigger_analysis
    \/ \E p \in Requests : start_run(p)
    \/ \E p \in Requests : finish_run(p)
SpecAnalysis == InitAnalysis /\ [][NextAnalysis]_vars

InitSimpleReport == BInit /\ WIdle /\ GIdle /\ CIdle /\ EIdle /\ PIdle /\ SIdle /\ KIdle /\ AIdle /\ XIdle /\ RIdle /\ FIdle /\ TIdle
NextSimpleReport == extract_attempt \/ generate_simple_report
SpecSimpleReport == InitSimpleReport /\ [][NextSimpleReport]_vars

\* steps C, D and E in a row on one input
InitPipeline == PInit /\ WIdle /\ GIdle /\ EIdle /\ PIdle /\ SIdle /\ KIdle /\ AIdle /\ XIdle /\ RIdle /\ FIdle /\ TIdle /\ BIdle
NextPipeline ==
    \/ sort_themes \/ attach_theme \/ new_cluster \/ assign_labels
    \/ groupby_cluster_label \/ build_signal_panels \/ detect_dissent
SpecPipeline == InitPipeline /\ [][NextPipeline]_vars

-----------------------------------------------------------------------------
(* Claims about the weight model, checked under SpecWeight                 *)

\* C1: for every relevancy, confidence, evidence type (also an unknown or a
\* missing one) and criticality flag, also with relevancy or confidence
\* outside their documented ranges, compute_weight_row yields a number w
\* with 0.2 <= w <= 2.0.
C1_WeightBounds ==
    wpc = "weighted" =>
        /\ weight \in Int
        /\ WeightScale \div 5 <= weight
        /\ weight <= 2 * WeightScale

\* an out-of-range row with a missing evidence type whose product (0) was
\* lifted to the lower clamp 0.2
C1_Witness ==
    /\ wpc = "weighted"
    /\ row.relevancy > 100
    /\ row.confidence < 0
    /\ row.evidence_type = None
    /\ WeightProduct(row) < WeightScale \div 5
    /\ weight = WeightScale \div 5

\* The documented relevancy factor: 0.5 + 0.5 * clamp(relevancy/100, 0, 1),
\* in 1/200, for the 0..100 integer score.
DocRelevancyFactor(relevancy) == 100 + Max2(0, Min2(100, relevancy))

DocWeight(r) ==
    Max2(WeightScale \div 5,
         Min2(2 * WeightScale,
              DocRelevancyFactor(r.relevancy) * confidence_factor(r.confidence)
                  * evidence_type_factor(r.evidence_type)
                  * is_critical_opinion_factor(r.is_critical_opinion)))

\* C2: the weight of an item is clamp(relevancy_factor * confidence_factor *
\* evidence_factor * critical_factor, 0.2, 2.0) with relevancy_factor =
\* 0.5 + 0.5 * clamp(relevancy/100, 0, 1) for the 0..100 relevancy score, so
\* relevancy 0, 50, 100 give the factors 0.5, 0.75, 1.0.
C2_WeightFormula ==
    (wpc = "weighted" /\ row.relevancy \in 0..100 /\ row.confidence \in 0..100)
        => weight = DocWeight(row)

-----------------------------------------------------------------------------
(* Claims about one cluster group, checked under SpecGroup.  The counted   *)
(* weights are recomputed here from the rows, independently of the helpers. *)

Counted(o)   == SeqSum([i \in 1..Len(g) |-> IF g[i].opt = o THEN g[i].w ELSE 0])
CountedTotal == SeqSum([i \in 1..Len(g) |-> IF g[i].opt \in Range(allowed_options) THEN g[i].w ELSE 0])
GroupTotal   == SeqSum([i \in 1..Len(g) |-> g[i].w])
NumOptions   == Len(allowed_options)
MaxCounted   == CHOOSE x \in {Counted(o) : o \in Range(allowed_options)} :
                    \A o \in Range(allowed_options) : Counted(o) <= x
OnSingleOption == CountedTotal > 0 /\ \E o \in Range(allowed_options) : Counted(o) = CountedTotal
SpreadEvenly   == \A a, b \in Range(allowed_options) : Counted(a) = Counted(b)
PanelDone   == "panel" \in gpc
DissentDone == "dissent" \in gpc

\* the documented mismatch: stance against with positive sentiment, or stance
\* not against with negative sentiment; a MIXED stance never counts
DocIsMismatch(r) ==
    \/ (r.is_against = "YES" /\ r.sentiment = "POSITIVE")
    \/ (r.is_against = "NO" /\ r.sentiment = "NEGATIVE")
DocMismatchW == SeqSum([i \in 1..Len(g) |-> IF DocIsMismatch(g[i]) THEN g[i].w ELSE 0])

\* C3: mismatch_share of a cluster is the weighted share, over the cluster's
\* total weight, of exactly the rows that are against with positive sentiment
\* or not against with negative sentiment; a MIXED row never counts.
C3_MismatchShare ==
    (DissentDone /\ GroupTotal > 0)
        => dissent_row.mismatch_share = PyRound(10000 * DocMismatchW, GroupTotal)

\* C4 as stated: for m >= 1 the consensus is an integer in 0..100, it is 100
\* when all counted weight lies on one option or when m = 1, and it is 0 when
\* the counted weight is spread exactly evenly over all m options (read for
\* m >= 2, where an even spread is not also a single option).
C4_AsStated ==
    (PanelDone /\ NumOptions >= 1) =>
        /\ panel.consensus \in 0..100
        /\ (OnSingleOption \/ NumOptions = 1) => panel.consensus = 100
        /\ (NumOptions >= 2 /\ SpreadEvenly) => panel.consensus = 0

\* C4 (amended): for m >= 1 the consensus of the Consensus Scorer and of the
\* Dissent Detector is an integer in 0..100; it is 100 when the counted
\* weight is positive and lies on a single option (so for m = 1 whenever the
\* counted weight is positive: with m = 1 and no counted weight the Scorer
\* reports 0), and it is 0 when m >= 2 and the counted weight is spread
\* exactly evenly over all m options.
C4_ConsensusBounds ==
    /\ (PanelDone /\ NumOptions >= 1) =>
          /\ panel.consensus \in 0..100
          /\ OnSingleOption => panel.consensus = 100
          /\ (NumOptions >= 2 /\ SpreadEvenly) => panel.consensus = 0
    /\ (DissentDone /\ NumOptions >= 1) =>
          /\ dissent_row.consensus \in 0..100
          /\ OnSingleOption => dissent_row.consensus = 100
          /\ (NumOptions >= 2 /\ SpreadEvenly) => dissent_row.consensus = 0

\* positive weight spread evenly over three options scores 0 in both tables
C4_Witness ==
    /\ PanelDone /\ DissentDone
    /\ NumOptions = 3 /\ CountedTotal > 0 /\ SpreadEvenly
    /\ panel.consensus = 0 /\ dissent_row.consensus = 0

\* C5: with positive counted weight and m > 1 options the consensus is
\* round(100 * (p - 1/m) / (1 - 1/m)) clamped to [0,100], p the largest
\* weighted share among the allowed options, rows with a foreign option value
\* not counted (the consensus is within 1/2 of the exact value, which lies in
\* [0,100]); 10 rows of equal weight, 6 HELPED and 4 HURT, m = 3, score 40.
C5_ConsensusFormula ==
    /\ (PanelDone /\ CountedTotal > 0 /\ NumOptions > 1) =>
          LET num == 100 * (MaxCounted * NumOptions - CountedTotal)
              den == (NumOptions - 1) * CountedTotal
              c   == panel.consensus
          IN  /\ c \in 0..100
              /\ 2 * (c * den - num) <= den
              /\ 2 * (num - c * den) <= den
    /\ (PanelDone /\ g = MixedGroup) => panel.consensus = 40

C5_Witness ==
    /\ PanelDone
    /\ g = MixedGroup /\ allowed_options = ImpactDirection
    /\ panel.option_shares["HELPED"] = <<6 * WUnit, 10 * WUnit>>
    /\ panel.consensus = 40

AllSharesZero(shares) == \A o \in Range(allowed_options) : shares[o][1] = 0
\* the first listed of the options that hold the largest counted weight
FirstLargest ==
    allowed_options[CHOOSE i \in 1..NumOptions :
                        /\ Counted(allowed_options[i]) = MaxCounted
                        /\ \A j \in 1..(i - 1) : Counted(allowed_options[j]) < MaxCounted]

\* C6: when no row carries an allowed option value, the Consensus Scorer and
\* the Dissent Detector both report dominant_option = null, consensus = 0 and
\* every option share 0, for every allowed option set; with positive counted
\* weight, of options tied for the largest share the first listed is dominant.
C6_ZeroWeightDefaults ==
    /\ (PanelDone /\ CountedTotal = 0) =>
          /\ panel.dominant_option = None
          /\ panel.consensus = 0
          /\ AllSharesZero(panel.option_shares)
    /\ (DissentDone /\ CountedTotal = 0) =>
          /\ dissent_row.dominant_option = None
          /\ dissent_row.consensus = 0
          /\ AllSharesZero(dissent_row.option_shares)
    /\ (PanelDone /\ CountedTotal > 0) => panel.dominant_option = FirstLargest
    /\ (DissentDone /\ CountedTotal > 0) => dissent_row.dominant_option = FirstLargest

Count(b) == IF b THEN 1 ELSE 0
ReasonKinds(r) == {r.dissent_reasons[i].kind : i \in 1..Len(r.dissent_reasons)}
FlagsAndReasons(r) ==
    /\ r.low_consensus_flag = (r.consensus < 20)
    /\ r.dissent = (r.low_consensus_flag \/ r.mismatch_flag \/ r.bimodal_flag)
    /\ Len(r.dissent_reasons)
          = Count(r.low_consensus_flag) + Count(r.mismatch_flag) + Count(r.bimodal_flag)
    /\ r.low_consensus_flag = ("Low consensus" \in ReasonKinds(r))
    /\ r.mismatch_flag = ("Stance-sentiment mismatch weight" \in ReasonKinds(r))
    /\ r.bimodal_flag = ("Bimodal stance" \in ReasonKinds(r))
    /\ r.dissent = (r.dissent_reasons # <<>>)
MixedExample(r) ==
    g = MixedGroup =>
        /\ ~r.low_consensus_flag
        /\ r.bimodal_flag
        /\ r.dissent
        /\ "Bimodal stance" \in ReasonKinds(r)

\* C7 as stated: in every row of detect_dissent, low_consensus_flag iff
\* consensus < 20, mismatch_flag iff the row's mismatch_share >= 0.10,
\* dissent is the disjunction of the three flags, and dissent_reasons holds
\* exactly one entry per true flag; the 6 HELPED / 4 HURT cluster has
\* low_consensus_flag false, bimodal_flag and dissent true, a Bimodal reason.
C7_AsStated ==
    DissentDone =>
        /\ FlagsAndReasons(dissent_row)
        /\ dissent_row.mismatch_flag = (dissent_row.mismatch_share >= 1000)
        /\ MixedExample(dissent_row)

\* C7 (amended): as stated, but mismatch_flag holds iff the unrounded
\* mismatch share computed by mismatch_weight_share is >= 0.10; the row's
\* mismatch_share field is that share rounded to 4 decimals and can read
\* 0.1 while mismatch_flag is false.
C7_DissentFlags ==
    DissentDone =>
        /\ FlagsAndReasons(dissent_row)
        /\ dissent_row.mismatch_flag
              = (10 * mismatch_weight_share(g)[1] >= mismatch_weight_share(g)[2])
        /\ dissent_row.mismatch_share
              = PyRound(10000 * mismatch_weight_share(g)[1], mismatch_weight_share(g)[2])
        /\ MixedExample(dissent_row)

C7_Witness ==
    /\ DissentDone
    /\ g = MixedGroup
    /\ dissent_row.consensus = 40
    /\ ~dissent_row.low_consensus_flag
    /\ dissent_row.bimodal_flag
    /\ dissent_row.dissent
    /\ "Bimodal stance" \in ReasonKinds(dissent_row)

\* C8: bimodal_flag is true iff the two largest option shares are each
\* >= 0.30, that is iff two different allowed options each hold at least
\* 0.30 of the positive counted weight; a 50/50 split over two options sets
\* it, zero counted weight or fewer than two allowed options never do.
C8_Bimodal ==
    DissentDone =>
        /\ dissent_row.bimodal_flag
              = (/\ CountedTotal > 0
                 /\ \E a, b \in Range(allowed_options) :
                       /\ a # b
                       /\ 10 * Counted(a) >= 3 * CountedTotal
                       /\ 10 * Counted(b) >= 3 * CountedTotal)
        /\ (CountedTotal = 0 \/ NumOptions < 2) => ~dissent_row.bimodal_flag

\* a 50/50 split over the two allowed options
C8_Witness ==
    /\ DissentDone
    /\ allowed_options = <<"HELPED", "HURT">>
    /\ Len(g) = 2
    /\ Counted("HELPED") = Counted("HURT") /\ Counted("HELPED") > 0
    /\ dissent_row.bimodal_flag

-----------------------------------------------------------------------------
(* Claims about the clusterer, checked under SpecCluster                   *)

ThemesSorted == cpc \in {"loop", "done"}

\* C9: the clusterer processes the distinct themes by total weight
\* descending, and themes of equal total weight in ascending string order.
C9_ThemeOrder ==
    ThemesSorted =>
        \A i \in 1..(Len(unique_themes) - 1) :
            \/ ThemeWeight(df, unique_themes[i]) > ThemeWeight(df, unique_themes[i + 1])
            \/ /\ ThemeWeight(df, unique_themes[i]) = ThemeWeight(df, unique_themes[i + 1])
               /\ StrLess(unique_themes[i], unique_themes[i + 1])

ReachesThreshold(theme, c) ==
    20 * cluster_similarity(theme, c.label)[1] >= 7 * cluster_similarity(theme, c.label)[2]

\* C10: a processed theme is attached to an existing cluster whose
\* representative label is most similar to it when that similarity is >= 0.35
\* (boundary included), and otherwise starts a new cluster with itself as
\* sole member and representative: it is never attached below the threshold
\* and never starts a cluster when an existing representative reaches it.
C10_AttachOrNew ==
    [][(cpc = "loop" /\ Cardinality(DOMAIN theme_to_cluster) < Len(unique_themes)) =>
        LET theme == NextTheme
            reach == {i \in 1..Len(clusters) : ReachesThreshold(theme, clusters[i])}
        IN  IF reach # {}
            THEN /\ Len(clusters') = Len(clusters)
                 /\ \E i \in reach :
                       /\ \A j \in 1..Len(clusters) :
                             FracGeq(cluster_similarity(theme, clusters[i].label),
                                     cluster_similarity(theme, clusters[j].label))
                       /\ clusters'[i] = [clusters[i] EXCEPT !.members = Append(@, theme)]
                       /\ \A j \in (1..Len(clusters)) \ {i} : clusters'[j] = clusters[j]
                       /\ theme_to_cluster'[theme] = clusters[i].id
            ELSE /\ clusters' = Append(clusters, [id |-> Len(clusters), members |-> <<theme>>,
                                                  label |-> theme])
                 /\ theme_to_cluster'[theme] = Len(clusters)
      ]_vars

\* two themes whose similarity is exactly 0.35 end in one cluster
C10_Witness ==
    /\ cpc = "done"
    /\ df = BoundaryDf
    /\ cluster_similarity(BoundaryThemeB, BoundaryThemeA) = <<14, 40>>
    /\ Len(clusters) = 1
    /\ clusters[1].members = <<BoundaryThemeA, BoundaryThemeB>>
    /\ clusters[1].label = BoundaryThemeA

-----------------------------------------------------------------------------
(* Claims about steps C and D together, checked under SpecPipeline         *)

AllHurtNegative == \A i \in 1..Len(df) : df[i].opt = "HURT" /\ df[i].sentiment = "NEGATIVE"

\* C12: five items over the themes 'audio issues' (weight 1.5) and 'audio
\* problems' (weight 1.2), all HURT with negative sentiment, end in a single
\* cluster (the similarity of the two themes is >= 0.35), whose panel has
\* consensus 100, dominant option HURT and polarity -1.0.
C12_AudioMerge ==
    /\ FracGeq(cluster_similarity(AudioProblems, AudioIssues), sim_threshold)
    /\ (cpc = "done" /\ df \in PipelineDfs) =>
          /\ Len(clusters) = 1
          /\ \A t \in ThemesOf(df) : theme_to_cluster[t] = 0
          /\ DOMAIN cluster_labels = {0}
    /\ (cpc = "done" /\ df \in PipelineDfs /\ AllHurtNegative /\ PanelDone) =>
          /\ Len(g) = 5
          /\ panel.consensus = 100
          /\ panel.dominant_option = "HURT"
          /\ panel.polarity[1] = -panel.polarity[2]
          /\ panel.total_weight = (27 * WUnit) \div 10

C12_Witness ==
    /\ cpc = "done" /\ PanelDone /\ AllHurtNegative
    /\ ThemeWeight(df, AudioIssues) = (3 * WUnit) \div 2
    /\ ThemeWeight(df, AudioProblems) = (6 * WUnit) \div 5
    /\ clusters = <<[id |-> 0, members |-> <<AudioIssues, AudioProblems>>, label |-> AudioIssues]>>
    /\ cluster_labels[0] = AudioIssues
    /\ panel.consensus = 100 /\ panel.dominant_option = "HURT" /\ panel.polarity = <<-2700, 2700>>

-----------------------------------------------------------------------------
(* Claims about the executive consensus card, checked under SpecCard       *)

CardDone == epc = "done"
PanelOf(label) == panels_df[CHOOSE i \in 1..Len(panels_df) : panels_df[i].theme_label = label]
Clusters == {panels_df[i].theme_label : i \in 1..Len(panels_df)}
BulletLabels(bullets) == {bullets[i].theme_label : i \in 1..Len(bullets)}
OneBulletEach(bullets) == Cardinality(BulletLabels(bullets)) = Len(bullets)
\* the bullets are the first n of the eligible clusters in the order Before:
\* no bullet for another cluster, n at most, nothing eligible left out while
\* there is room, bullets in order, and no cluster left out comes before one
\* that has a bullet
AgreeEligible == {l \in Clusters : /\ PanelOf(l).consensus >= 70
                                   /\ PanelOf(l).dominant_option \in CATEGORY_FAVORABLE[category]}
AgreeBefore(a, b) ==
    \/ PanelOf(a).consensus > PanelOf(b).consensus
    \/ (PanelOf(a).consensus = PanelOf(b).consensus /\ PanelOf(a).total_weight > PanelOf(b).total_weight)

\* C13: what_we_agree_on has one bullet for exactly the clusters with
\* consensus >= 70 and a dominant option in the category's favourable set,
\* by consensus descending then total weight descending, cut to the first 5;
\* a cluster below 70 or with an unfavourable or null dominant option never
\* has a bullet.
C13_AgreeBullets ==
    CardDone =>
        /\ OneBulletEach(what_we_agree_on)
        /\ BulletLabels(what_we_agree_on) \subseteq AgreeEligible
        /\ Len(what_we_agree_on) = Min2(5, Cardinality(AgreeEligible))
        /\ \A i, j \in 1..Len(what_we_agree_on) :
              i < j => ~AgreeBefore(what_we_agree_on[j].theme_label, what_we_agree_on[i].theme_label)
        /\ \A l \in AgreeEligible \ BulletLabels(what_we_agree_on) :
              \A i \in 1..Len(what_we_agree_on) : ~AgreeBefore(l, what_we_agree_on[i].theme_label)
        /\ \A i \in 1..Len(what_we_agree_on) :
              what_we_agree_on[i].lead = PanelOf(what_we_agree_on[i].theme_label).dominant_option

\* six eligible clusters of two consensus values: five bullets, the first of
\* consensus 90 and the last of consensus 70
C13_Witness ==
    /\ CardDone
    /\ Cardinality(AgreeEligible) = 6
    /\ Len(what_we_agree_on) = 5
    /\ PanelOf(what_we_agree_on[1].theme_label).consensus = 90
    /\ PanelOf(what_we_agree_on[5].theme_label).consensus = 70
    /\ \E l \in AgreeEligible \ BulletLabels(what_we_agree_on) : PanelOf(l).total_weight = WUnit

DissentRowOf(label) == dissent_df[CHOOSE i \in 1..Len(dissent_df) : dissent_df[i].theme_label = label]
DissentFlagged == {l \in Clusters : DissentRowOf(l).dissent}
DisagreeBefore(a, b) ==
    \/ PanelOf(a).consensus < PanelOf(b).consensus
    \/ (PanelOf(a).consensus = PanelOf(b).consensus /\ PanelOf(a).total_weight > PanelOf(b).total_weight)

\* C14: where_we_disagree has one bullet for exactly the clusters with
\* dissent = true (never one with dissent = false), by consensus ascending
\* then total weight descending, cut to the first 3; each bullet cites at
\* most 3 of its cluster's dissent reasons.
C14_DisagreeBullets ==
    CardDone =>
        /\ OneBulletEach(where_we_disagree)
        /\ BulletLabels(where_we_disagree) \subseteq DissentFlagged
        /\ Len(where_we_disagree) = Min2(3, Cardinality(DissentFlagged))
        /\ \A i, j \in 1..Len(where_we_disagree) :
              i < j => ~DisagreeBefore(where_we_disagree[j].theme_label, where_we_disagree[i].theme_label)
        /\ \A l \in DissentFlagged \ BulletLabels(where_we_disagree) :
              \A i \in 1..Len(where_we_disagree) : ~DisagreeBefore(l, where_we_disagree[i].theme_label)
        /\ \A i \in 1..Len(where_we_disagree) :
              /\ Len(where_we_disagree[i].reasons) <= 3
              /\ Range(where_we_disagree[i].reasons)
                    \subseteq Range(DissentRowOf(where_we_disagree[i].theme_label).dissent_reasons)

\* six flagged clusters: three bullets, the first of consensus 10 with three
\* reasons, and a flagged cluster of consensus 30 without a bullet
C14_Witness ==
    /\ CardDone
    /\ Cardinality(DissentFlagged) = 6
    /\ Len(where_we_disagree) = 3
    /\ PanelOf(where_we_disagree[1].theme_label).consensus = 10
    /\ Len(where_we_disagree[1].reasons) = 3
    /\ PanelOf(where_we_disagree[3].theme_label).consensus = 30
    /\ \E l \in DissentFlagged \ BulletLabels(where_we_disagree) : PanelOf(l).consensus = 30

NextEligible == {l \in Clusters : \/ (PanelOf(l).consensus >= 55 /\ PanelOf(l).consensus < 70)
                                  \/ PanelOf(l).avg_confidence < 50}
NextBefore(a, b) ==
    \/ PanelOf(a).avg_confidence < PanelOf(b).avg_confidence
    \/ (PanelOf(a).avg_confidence = PanelOf(b).avg_confidence /\ PanelOf(a).consensus < PanelOf(b).consensus)
WeakTop3(l) ==
    LET ev == PanelOf(l).top_evidence
    IN  Cardinality({i \in 1..Len(ev) : i <= 3 /\ (ev[i] = "ASSUMPTION" \/ ev[i] = "ANECDOTE")})

\* C15: what_to_decide_next has one bullet for exactly the clusters with
\* 55 <= consensus < 70 or avg_confidence < 0.5, by avg_confidence ascending
\* then consensus ascending, cut to the first 3; a bullet has the 'clarify
\* before deciding' wording iff at least 2 of the cluster's top-3 evidence
\* items are ASSUMPTION or ANECDOTE or its avg_confidence is < 0.5, and the
\* 'finalize decision' wording otherwise.
C15_NextBullets ==
    CardDone =>
        /\ OneBulletEach(what_to_decide_next)
        /\ BulletLabels(what_to_decide_next) \subseteq NextEligible
        /\ Len(what_to_decide_next) = Min2(3, Cardinality(NextEligible))
        /\ \A i, j \in 1..Len(what_to_decide_next) :
              i < j => ~NextBefore(what_to_decide_next[j].theme_label, what_to_decide_next[i].theme_label)
        /\ \A l \in NextEligible \ BulletLabels(what_to_decide_next) :
              \A i \in 1..Len(what_to_decide_next) : ~NextBefore(l, what_to_decide_next[i].theme_label)
        /\ \A i \in 1..Len(what_to_decide_next) :
              LET b == what_to_decide_next[i]
                  clarify == WeakTop3(b.theme_label) >= 2 \/ PanelOf(b.theme_label).avg_confidence < 50
              IN  /\ b.wording \in {"clarify before deciding", "finalize decision"}
                  /\ (b.wording = "clarify before deciding") = clarify

\* six eligible clusters: three bullets, two of low confidence that ask to
\* clarify and then one that asks to finalize
C15_Witness ==
    /\ CardDone
    /\ Cardinality(NextEligible) = 6
    /\ Len(what_to_decide_next) = 3
    /\ what_to_decide_next[1].wording = "clarify before deciding"
    /\ what_to_decide_next[2].wording = "clarify before deciding"
    /\ what_to_decide_next[3].wording = "finalize decision"
    /\ PanelOf(what_to_decide_next[3].theme_label).consensus = 55

\* two clusters of confidence 0.5: the one with two weak items among its top
\* three asks to clarify, the one whose weak items rank fourth and fifth
\* asks to finalize
C15_WitnessEvidence ==
    /\ CardDone
    /\ Len(what_to_decide_next) = 2
    /\ \E i, j \in 1..2 :
          /\ PanelOf(what_to_decide_next[i].theme_label).avg_confidence = 50
          /\ PanelOf(what_to_decide_next[j].theme_label).avg_confidence = 50
          /\ Len(PanelOf(what_to_decide_next[i].theme_label).top_evidence) = 3
          /\ Len(PanelOf(what_to_decide_next[j].theme_label).top_evidence) = 5
          /\ what_to_decide_next[i].wording = "clarify before deciding"
          /\ what_to_decide_next[j].wording = "finalize decision"

-----------------------------------------------------------------------------
(* Claims about the evidence ranking and the payload, under SpecPayload    *)

EvidenceDone == "evidence" \in ppc
PayloadDone  == "payload" \in ppc
\* evidence_factor * weight of the input row with that text
ScoreOf(t) ==
    (IF evidence_g[t].evidence_type \in DOMAIN EVIDENCE_WEIGHTS
     THEN EVIDENCE_WEIGHTS[evidence_g[t].evidence_type] ELSE 18) * evidence_g[t].weight_score_algo

\* C16: the ranked evidence list of a cluster is ordered by evidence_factor *
\* weight descending, and two items of identical evidence type and weight
\* appear in their input order.
C16_StableRanking ==
    EvidenceDone =>
        /\ Len(top_evidence) = Min2(5, Len(evidence_g))
        /\ \A i \in 1..Len(top_evidence) :
              /\ top_evidence[i].text \in 1..Len(evidence_g)
              /\ top_evidence[i].evidence_type = evidence_g[top_evidence[i].text].evidence_type
              /\ top_evidence[i].w = evidence_g[top_evidence[i].text].weight_score_algo
              /\ top_evidence[i].score = ScoreOf(top_evidence[i].text)
        /\ \A i, j \in 1..Len(top_evidence) :
              i < j =>
                 /\ top_evidence[i].text # top_evidence[j].text
                 /\ top_evidence[i].score >= top_evidence[j].score
                 /\ (top_evidence[i].evidence_type = top_evidence[j].evidence_type
                        /\ top_evidence[i].w = top_evidence[j].w)
                      => top_evidence[i].text < top_evidence[j].text
        /\ \A t \in 1..Len(evidence_g) :
              (\A i \in 1..Len(top_evidence) : top_evidence[i].text # t)
                  => \A i \in 1..Len(top_evidence) : top_evidence[i].score >= ScoreOf(t)

\* the six-row group: five ranked items; the DATA rows of weight 1.0 come
\* second-and-fifth of the input and rank first and second, the ANECDOTE rows
\* of weight 1.0 follow in input order
C16_Witness ==
    /\ EvidenceDone
    /\ Len(evidence_g) = 6
    /\ [i \in 1..5 |-> top_evidence[i].text] = <<2, 5, 1, 3, 6>>

\* the surviving items whose stance is against
AgainstItems == {i \in 1..Len(payload_df) : payload_df[i].is_against = "YES"}

\* C17: against_top7 consists of the surviving items whose is_against stance
\* is affirmative, limited to the 7 of highest weight: never more than 7
\* entries, every such item when there are at most 7 of them, each entry with
\* the fields weight, text, is_against and sentiment only.
C17_AgainstTop7 ==
    PayloadDone =>
        /\ Len(against_top7) <= 7
        /\ \A i \in 1..Len(against_top7) :
              /\ against_top7[i].text \in AgainstItems
              /\ DOMAIN against_top7[i] = {"weight_score_algo", "text", "is_against", "sentiment"}
        /\ Cardinality(AgainstItems) <= 7
              => {against_top7[i].text : i \in 1..Len(against_top7)} = AgainstItems
        /\ \A i, j \in 1..Len(against_top7) :
              i < j => against_top7[i].weight_score_algo >= against_top7[j].weight_score_algo

-----------------------------------------------------------------------------
(* Claims about the summarizer's response, under SpecSummary               *)

SummaryDone == spc = "done"
MissingKeys == {k \in SummaryKeys : ~Has(llm_output, k)}

\* C18: a summarizer response that lacks any one of the keys main_summary,
\* conflicting_statement and top_weighted_points is rejected as an error of
\* the run: no Summary is accepted for it, so no missing key is replaced by
\* a default value.
C18_MissingKeyRejected ==
    (SummaryDone /\ MissingKeys # {}) =>
        /\ summary = <<>>
        /\ summary_error = "ValidationError"

-----------------------------------------------------------------------------
(* Claims about the classification of one feedback, under SpecClassify     *)

ClassifyDone == kpc = "done"
\* a response with its four required keys in which a value lies outside
\* its declared domain or range
OutOfDomain ==
    /\ \A k \in required_keys : Has(response, k)
    /\ \/ response.sentiment[1] \notin valid_sentiments
       \/ response.intent[1] \notin valid_intents
       \/ /\ IsList(response.aspects[1])
          /\ \E i \in 1..Len(response.aspects[1][2]) : response.aspects[1][2][i] \notin valid_aspects
       \/ response.confidence[1] < 0
       \/ response.confidence[1] > 10

\* C19: a classifier result in which the sentiment, the intent or an aspect
\* lies outside its declared domain, or the confidence outside [0, 1], is
\* rejected as a classification failure: no result is returned for it, so
\* none in which the value was altered or dropped.
C19_OutOfDomainRejected ==
    (ClassifyDone /\ OutOfDomain) =>
        /\ result = <<>>
        /\ classify_error = "Exception"

-----------------------------------------------------------------------------
(* Claims about the aggregation, under SpecAggregate                       *)

AggregateDone == apc = "done"
ScalarFields ==
    {"total_responses", "positive_count", "neutral_count", "negative_count", "satisfaction_score"}
\* the collection fields the result for a non-empty input carries
CollectionFields ==
    DOMAIN Analytics(<<CHOOSE fb \in FeedbackProfiles : TRUE>>, feedback_texts) \ ScalarFields

\* C20: for zero classified items the aggregation returns a result with
\* total_responses, the three sentiment counts and satisfaction_score all 0,
\* in which every collection field of a result for non-empty input is
\* present and empty.
C20_EmptyInput ==
    (AggregateDone /\ classified_feedbacks = <<>>) =>
        /\ \A k \in ScalarFields : k \in DOMAIN analytics[1] /\ analytics[1][k] = 0
        /\ \A k \in CollectionFields : k \in DOMAIN analytics[1] /\ DOMAIN analytics[1][k] = {}

\* the fields of a result for non-empty input that the result for zero
\* items does carry are zero or empty
C20_PresentFieldsZero ==
    (AggregateDone /\ classified_feedbacks = <<>>) =>
        /\ \A k \in ScalarFields : k \in DOMAIN analytics[1] /\ analytics[1][k] = 0
        /\ \A k \in CollectionFields \cap DOMAIN analytics[1] : DOMAIN analytics[1][k] = {}

-----------------------------------------------------------------------------
(* Claims about one run of the summary graph, under SpecGraph              *)

Ran == {order[i].node : i \in 1..Len(order)}
\* the messages that are not risk-flagged and reach the relevancy floor
SafeIds ==
    {i \in 1..Len(messages) : ~messages[i].risk_flag /\ messages[i].relevancy * 10 >= 6}
DerivedFields == StateFields \ {"df"}

\* C21: when no item remains after filtering (no message at all, or every
\* one risk-flagged or below the relevancy floor) no stage raises, and the
\* run ends with every derived table and list empty.
C21_EmptyCompletes ==
    SafeIds = {} =>
        /\ graph_status \in {"running", "ended"}
        /\ graph_status = "ended" =>
              \A f \in DerivedFields : channels[f] = <<{}>>

\* the stages named as predecessors of a stage
Preds(n) ==
    {m \in Nodes : <<m, n>> \in Edges} \cup UNION {j[1] : j \in {k \in Joins : k[2] = n}}

\* C24: each stage runs at most once and only after all its predecessors
\* have finished; the run ends only after the theme leaderboard, the heatmap
\* and the summarization have completed; stages of one step write disjoint
\* state fields.
C24_StageOrder ==
    /\ \A i, j \in 1..Len(order) : order[i].node = order[j].node => i = j
    /\ \A i \in 1..Len(order) : Preds(order[i].node) \subseteq order[i].after
    /\ graph_status = "ended" =>
          {"build_theme_leaderboard", "build_sentiment_emotion_heatmap", "generate_summary"} \subseteq Ran
    /\ \A i, j \in 1..Len(writes) : i # j => DOMAIN writes[i] \cap DOMAIN writes[j] = {}

\* a run through all twelve stages, the card and the boards in one step
C24_Witness ==
    /\ graph_status = "ended"
    /\ Len(order) = 12
    /\ \E i \in 1..Len(order) :
          /\ order[i].node = "build_llm_payload"
          /\ {"build_executive_consensus_card", "build_evidence_board"} \subseteq order[i].after

\* the filter has run and its update is applied
FilterApplied == "step_a_filter" \in Ran \ finished /\ graph_status \in {"running", "ended"}

\* C26: after step_a_filter the working set is exactly the input rows that
\* are not risk-flagged and have relevancy >= the minimum, in input order,
\* and no other item contributes to any later table, list or payload.
C26_OnlySafeItems ==
    FilterApplied =>
        /\ LET rows == channels.df[1].rows
           IN  /\ {rows[i].id : i \in 1..Len(rows)} = SafeIds
               /\ \A i, j \in 1..Len(rows) : i < j => rows[i].id < rows[j].id
        /\ \A f \in DerivedFields : channels[f] # <<>> => channels[f][1] \subseteq SafeIds

\* a finished run on a risk-flagged message and a safe one
C26_Witness ==
    /\ graph_status = "ended"
    /\ \E i \in 1..Len(messages) : messages[i].risk_flag /\ messages[i].relevancy = 60
    /\ channels.payload # <<>>
    /\ channels.payload[1] = SafeIds
    /\ SafeIds # {}

-----------------------------------------------------------------------------
(* Claims about the event report, under SpecReport                         *)

\* the LLM report generation fails: there is feedback and the call raises,
\* or its answer is no JSON object, or a key is missing
LlmReportFails ==
    /\ analytics[1].total_responses > 0
    /\ \/ llm_report_response.kind # "object"
       \/ ~(report_keys \subseteq llm_report_response.keys)

\* C23: generate_report_with_fallback never raises; when the LLM report
\* generation fails it returns the templated report built from the
\* aggregates; every returned report has the fields executive_summary,
\* strengths, improvements and recommendations.
C23_AlwaysReport ==
    /\ report_raised = None
    /\ report # <<>> =>
          /\ report_keys \subseteq DOMAIN report[1]
          /\ LlmReportFails =>
                /\ DOMAIN report[1] = report_keys
                /\ report[1].executive_summary.total = Len(classified_feedbacks)
                /\ report[1].executive_summary.positive = analytics[1].positive_count
                /\ report[1].executive_summary.satisfaction = analytics[1].satisfaction_score
                /\ {report[1].strengths[i][1] : i \in 1..Len(report[1].strengths)}
                      \subseteq DOMAIN analytics[1].top_strengths
                /\ {report[1].improvements[i][1] : i \in 1..Len(report[1].improvements)}
                      \subseteq DOMAIN analytics[1].top_issues

\* a fallback report after an answer that lacks a key
C23_Witness ==
    /\ report # <<>>
    /\ llm_report_response.kind = "object"
    /\ llm_report_response.keys = report_keys \ {"recommendations"}
    /\ Len(classified_feedbacks) = 3
    /\ Len(report[1].improvements) = 2

-----------------------------------------------------------------------------
(* The Consensus Scorer against the Dissent Detector, under SpecGroup      *)

\* C25: for every cluster and every allowed option set the Dissent
\* Detector's consensus_for_group and the Consensus Scorer's
\* consensus_score_for_group give the same consensus, the same dominant
\* option and the same option shares, so the panel row and the dissent row
\* of a cluster agree.
C25_ScorerEqualsDetector ==
    (PanelDone /\ DissentDone) =>
        /\ panel.consensus = dissent_row.consensus
        /\ panel.dominant_option = dissent_row.dominant_option
        /\ panel.option_shares = dissent_row.option_shares

-----------------------------------------------------------------------------
(* The clusters as a partition of the items, under SpecCluster             *)

ClusterIdOf(i) == theme_to_cluster[df[i].theme]

\* C29: after clustering every item has exactly one cluster id >= 0, items
\* with the same theme string are in the same cluster, each cluster's label
\* is the theme string of one of its own members, and no two clusters share
\* a label, so grouping by label is grouping by cluster id.
C29_ClustersPartition ==
    cpc = "done" =>
        /\ \A i \in 1..Len(df) :
              /\ df[i].theme \in DOMAIN theme_to_cluster
              /\ ClusterIdOf(i) >= 0
              /\ ClusterIdOf(i) \in DOMAIN cluster_labels
        /\ \A i, j \in 1..Len(df) : df[i].theme = df[j].theme => ClusterIdOf(i) = ClusterIdOf(j)
        /\ \A cid \in DOMAIN cluster_labels :
              \E i \in 1..Len(df) : ClusterIdOf(i) = cid /\ df[i].theme = cluster_labels[cid]
        /\ \A c1, c2 \in DOMAIN cluster_labels :
              cluster_labels[c1] = cluster_labels[c2] => c1 = c2
        /\ \A i, j \in 1..Len(df) :
              (cluster_labels[ClusterIdOf(i)] = cluster_labels[ClusterIdOf(j)])
                  <=> (ClusterIdOf(i) = ClusterIdOf(j))

\* two clusters, one of them of two themes
C29_Witness ==
    /\ cpc = "done"
    /\ Cardinality(DOMAIN cluster_labels) = 2
    /\ \E cid \in DOMAIN cluster_labels : Cardinality(ClusterThemes(cid)) = 2

-----------------------------------------------------------------------------
(* Claims about the parallel classification, under SpecParallel            *)

\* C22: classify_feedbacks_parallel returns one result per feedback, in
\* input order and with that feedback's id; a feedback whose classification
\* fails gets a 'failed' result, every other one its own 'success' result,
\* and the call does not raise; no feedback is attempted more than once, and
\* never more than max_workers at a time.
C22_OneResultEach ==
    /\ gather_raised = None
    /\ \A i \in 1..Len(feedbacks) : attempts[i] <= 1
    /\ Cardinality(running) <= 10
    /\ results # <<>> =>
          /\ Len(results) = Len(feedbacks)
          /\ \A i \in 1..Len(feedbacks) :
                /\ attempts[i] = 1
                /\ results[i].feedback_id = feedbacks[i].id
                /\ results[i].status = (IF feedbacks[i].fails THEN "failed" ELSE "success")
                /\ ~feedbacks[i].fails => results[i].sentiment = feedbacks[i].sentiment

\* eleven feedbacks, the third failing, all returned
C22_Witness ==
    /\ Len(results) = 11
    /\ results[3].status = "failed"
    /\ results[4].status = "success"

\* ten tasks running while the eleventh waits
C22_WitnessPoolFull ==
    /\ Cardinality(running) = 10
    /\ started = 10
    /\ Len(feedbacks) = 11

-----------------------------------------------------------------------------
(* Claims about the analysis runs of one event, under SpecAnalysis         *)

RunningRuns == {i \in 1..Len(analysis_runs) : analysis_runs[i].status = "RUNNING"}

\* C27: at most one analysis run of an event is RUNNING at any time, and a
\* trigger that is rejected has created no AnalysisRun, under every
\* interleaving of the manual trigger and the pending-events check.
C27_SingleRunning ==
    /\ Cardinality(RunningRuns) <= 1
    /\ \A p \in Requests : tpc[p] \in {"rejected", "skipped"} => run_id[p] = 0

\* a call that ran while no other request was being served
RanAlone(p) ==
    /\ run_id[p] # 0
    /\ tpc[p] \in {"returned", "raised"}
    /\ \A q \in Requests \ {p} : tpc[q] = "idle"

\* C28: a run_analysis_pipeline call that set the event to RUNNING ends with
\* the run and the event both COMPLETED or both FAILED; FAILED, with the
\* exception re-raised, exactly when a step raised; and COMPLETED whenever
\* the event has at least 3 ACCEPT feedback and every external call succeeds.
C28_FinalStatus ==
    \A p \in Requests : RanAlone(p) =>
        LET s == analysis_runs[run_id[p]].status IN
        /\ s \in {"COMPLETED", "FAILED"}
        /\ analysis_status = s
        /\ (s = "FAILED") <=> (pipeline_raised[p] # None)
        /\ (accept_count >= 3 /\ AllCallsSucceed(calls[p][1])) => s = "COMPLETED"

-----------------------------------------------------------------------------
(* Claims about the simple report, under SpecSimpleReport                  *)

\* C30: the dimension record that generate_simple_report attaches to a
\* feedback was extracted from that feedback's text; every batch is
\* attempted at most 3 times and not again after its first success.
C30_OwnDimension ==
    /\ \A b \in 1..Len(attempts_made) :
          /\ Len(attempts_made[b]) <= 3
          /\ \A k \in 1..(Len(attempts_made[b]) - 1) : ~attempts_made[b][k]
    /\ bpc = "done" =>
          \A i \in 1..Len(report_feedbacks) :
              report_feedbacks[i].dimension # <<>> =>
                  report_feedbacks[i].dimension[1].extracted_from = report_feedbacks[i].text

====
